---- MODULE Spec2Model ----
(***************************************************************************)
(* Model of the WebLoom crawl engine (src/app.py): the job registry        *)
(* crawl_jobs, the AsyncCrawler task of every job, the URL admission       *)
(* policy, and the packaging stage.                                        *)
(*                                                                         *)
(* Python strings are sequences of one-character strings.  A URL is held   *)
(* in the parsed form urlparse gives it: scheme, netloc, path, query and   *)
(* fragment.  The tasks run on one asyncio event loop: a task runs alone   *)
(* from one await to the next, which the variable running records.         *)
(***************************************************************************)
EXTENDS Integers, Sequences, FiniteSets, TLC

\* ------------------------------------------------------------------------
\* Strings
\* ------------------------------------------------------------------------
UpperAlpha ==
  <<"A","B","C","D","E","F","G","H","I","J","K","L","M",
    "N","O","P","Q","R","S","T","U","V","W","X","Y","Z">>

LowerAlpha ==
  <<"a","b","c","d","e","f","g","h","i","j","k","l","m",
    "n","o","p","q","r","s","t","u","v","w","x","y","z">>

LowerChar(c) ==
  IF \E i \in 1..26 : UpperAlpha[i] = c
    THEN LowerAlpha[CHOOSE i \in 1..26 : UpperAlpha[i] = c]
    ELSE c

\* str.lower()
Lower(s) == [i \in 1..Len(s) |-> LowerChar(s[i])]

\* str.endswith(suf)
EndsWith(s, suf) ==
  /\ Len(suf) <= Len(s)
  /\ SubSeq(s, Len(s) - Len(suf) + 1, Len(s)) = suf

\* sub in s
Contains(s, sub) ==
  \E i \in 1..(Len(s) - Len(sub) + 1) : SubSeq(s, i, i + Len(sub) - 1) = sub

\* ------------------------------------------------------------------------
\* Program constants of src/app.py
\* ------------------------------------------------------------------------
MAX_PAGES == 50

IGNORED_EXTENSIONS ==
  { <<".","p","d","f">>,
    <<".","d","o","c">>,
    <<".","d","o","c","x">>,
    <<".","x","l","s">>,
    <<".","x","l","s","x">>,
    <<".","p","p","t">>,
    <<".","p","p","t","x">>,
    <<".","z","i","p">>,
    <<".","r","a","r">>,
    <<".","t","a","r">>,
    <<".","g","z">>,
    <<".","7","z">>,
    <<".","j","p","g">>,
    <<".","j","p","e","g">>,
    <<".","p","n","g">>,
    <<".","g","i","f">>,
    <<".","b","m","p">>,
    <<".","s","v","g">>,
    <<".","i","c","o">>,
    <<".","m","p","4">>,
    <<".","a","v","i">>,
    <<".","m","o","v">>,
    <<".","w","m","v">>,
    <<".","f","l","v">>,
    <<".","w","e","b","m">>,
    <<".","m","p","3">>,
    <<".","w","a","v">>,
    <<".","f","l","a","c">>,
    <<".","a","a","c">>,
    <<".","o","g","g">>,
    <<".","e","x","e">>,
    <<".","m","s","i">>,
    <<".","d","m","g">>,
    <<".","d","e","b">>,
    <<".","r","p","m">>,
    <<".","c","s","s">>,
    <<".","j","s">>,
    <<".","x","m","l">>,
    <<".","j","s","o","n">>,
    <<".","t","x","t">> }

excluded_domains ==
  { <<"f","a","c","e","b","o","o","k",".","c","o","m">>,
    <<"t","w","i","t","t","e","r",".","c","o","m">>,
    <<"i","n","s","t","a","g","r","a","m",".","c","o","m">>,
    <<"y","o","u","t","u","b","e",".","c","o","m">>,
    <<"p","i","n","t","e","r","e","s","t",".","c","o","m">>,
    <<"t","i","k","t","o","k",".","c","o","m">>,
    <<"s","n","a","p","c","h","a","t",".","c","o","m">>,
    <<"m","a","p","s",".","g","o","o","g","l","e",".","c","o","m">>,
    <<"m","a","p","s",".","a","p","p",".","g","o","o",".","g","l">>,
    <<"g","o","o",".","g","l">>,
    <<"b","i","t",".","l","y">>,
    <<"t",".","c","o">>,
    <<"t","i","n","y","u","r","l",".","c","o","m">>,
    <<"f","o","r","m","s",".","g","l","e">>,
    <<"d","o","c","s",".","g","o","o","g","l","e",".","c","o","m">> }

linkedin_com == <<"l","i","n","k","e","d","i","n",".","c","o","m">>

company_dir == <<"/","c","o","m","p","a","n","y","/">>

school_dir == <<"/","s","c","h","o","o","l","/">>

showcase_dir == <<"/","s","h","o","w","c","a","s","e","/">>

http == <<"h","t","t","p">>

https == <<"h","t","t","p","s">>

mailto == <<"m","a","i","l","t","o">>

tel == <<"t","e","l">>

ftp == <<"f","t","p">>

sftp == <<"s","f","t","p">>

javascript == <<"j","a","v","a","s","c","r","i","p","t">>

\* ------------------------------------------------------------------------
\* URLs
\* ------------------------------------------------------------------------
\* the result of urlparse(url)
Url(scheme, netloc, path, query, fragment) ==
  [scheme |-> scheme, netloc |-> netloc, path |-> path,
   query |-> query, fragment |-> fragment]

\* is_valid_url, src/app.py:93-148
is_valid_url(url) ==
  IF url.scheme = <<>> \/ url.netloc = <<>> THEN FALSE
  ELSE IF url.scheme \notin {http, https} THEN FALSE
  ELSE IF \E ext \in IGNORED_EXTENSIONS : EndsWith(Lower(url.path), ext)
    THEN FALSE
  ELSE IF url.fragment # <<>> /\ url.path = <<>> THEN FALSE
  ELSE IF Lower(url.scheme) = javascript THEN FALSE
  ELSE IF url.scheme \in {mailto, tel, ftp, sftp} THEN FALSE
  ELSE IF Contains(Lower(url.netloc), linkedin_com)
    THEN \/ Contains(url.path, company_dir)
         \/ Contains(url.path, school_dir)
         \/ Contains(url.path, showcase_dir)
  ELSE IF \E excluded \in excluded_domains :
            Contains(Lower(url.netloc), excluded)
    THEN FALSE
  ELSE TRUE

\* normalize_url, src/app.py:150-158: parsed._replace(fragment='')
normalize_url(url) == [url EXCEPT !.fragment = <<>>]

\* ------------------------------------------------------------------------
\* The crawled web: the pages the render capability can return
\* ------------------------------------------------------------------------
HostA == <<"a",".","i","o">>

HostB == <<"b",".","i","o">>

HostShort == <<"t",".","c","o">>

Home == Url(http, HostA, <<"/">>, <<>>, <<>>)

HomeTop == Url(http, HostA, <<"/">>, <<>>, <<"t">>)

PageP == Url(http, HostA, <<"/","p">>, <<>>, <<>>)

PagePSec == Url(http, HostA, <<"/","p">>, <<>>, <<"s">>)

PageQ == Url(http, HostA, <<"/","q">>, <<>>, <<>>)

Doc == Url(http, HostA, <<"/","d",".","P","D","F">>, <<>>, <<>>)

Other == Url(http, HostB, <<"/">>, <<>>, <<>>)

Short == Url(http, HostShort, <<"/","x">>, <<>>, <<>>)

Mail == Url(mailto, <<>>, <<"x","@","a",".","i","o">>, <<>>, <<>>)

\* the anchors of the page at url in the order they occur in its markup,
\* each href resolved by urljoin
Anchors(url) ==
  IF url = Home
    THEN <<HomeTop, PagePSec, PageQ, Other, Doc, Short, Mail, PageQ>>
  ELSE IF url = PageP THEN <<Home, PageQ, PagePSec>>
  ELSE IF url = PageQ THEN <<PageP, Other>>
  ELSE IF url = Other THEN <<Home>>
  ELSE << >>

\* the hrefs of the anchors of the page at url
Hrefs(url) == {Anchors(url)[i] : i \in 1..Len(Anchors(url))}

\* the seed URLs a submission can carry
SeedInputs == {Home, PagePSec, Doc}

\* the largest max_pages below the ceiling a submission carries
MaxRequested == 2

\* the max_pages a submission can carry: negative, zero, small, above 50
MaxPagesInputs == (-1..MaxRequested) \cup {MAX_PAGES + 1}

\* the default of CrawlRequest.max_pages, src/app.py:78
DefaultMaxPages == 20

\* the bodies of POST /crawl: url, allow_backward, and max_pages given
\* (<<n>>) or left out (<< >>)
RequestBodies ==
  [url : SeedInputs, allow_backward : BOOLEAN,
   max_pages : {<<n>> : n \in MaxPagesInputs} \cup {<< >>}]

\* the CrawlRequest pydantic makes of a body, src/app.py:75-78: a field
\* left out takes its default
CrawlRequest(body) ==
  [url |-> body.url,
   allow_backward |-> body.allow_backward,
   max_pages |-> IF body.max_pages = << >> THEN DefaultMaxPages
                ELSE body.max_pages[1]]

\* the jobs (uuid4 identifiers) of the model
Jobs == {"j1", "j2"}

\* the jobs submitted in the single-job specification
SoloJobs == {"j1"}

\* a cap on the fetches of one job; no run of the program reaches it
MaxFetches == 12

\* ------------------------------------------------------------------------
\* Sequences
\* ------------------------------------------------------------------------
Range(s) == {s[i] : i \in 1..Len(s)}

RECURSIVE Orders(_)
\* the orders in which list(set) can yield the members of S
Orders(S) ==
  IF S = {} THEN {<< >>}
  ELSE UNION {{<<x>> \o o : o \in Orders(S \ {x})} : x \in S}

Min(a, b) == IF a <= b THEN a ELSE b

\* ------------------------------------------------------------------------
\* Name resolution
\* ------------------------------------------------------------------------
\* the names bound at module level of src/app.py that the crawl uses; the
\* file has no "def generate_json_ld" line: the body written for it stands
\* at the end of create_schema_loader_script, where page_data is unbound
GlobalNames ==
  { "crawl_jobs", "is_valid_url", "normalize_url", "fetch_rendered_page",
    "extract_links", "clean_content", "create_website_folder_structure",
    "create_schema_loader_script", "AsyncCrawler", "start_crawl" }

\* FALSE: evaluating the name raises NameError
NameDefined(name) == name \in GlobalNames

\* ------------------------------------------------------------------------
\* Packaging: create_website_folder_structure and its callees
\* ------------------------------------------------------------------------
Digits == <<"0","1","2","3","4","5","6","7","8","9">>

homepage_json == <<"h","o","m","e","p","a","g","e",".","j","s","o","n">>

index_json == <<"i","n","d","e","x",".","j","s","o","n">>

loader_js == <<"s","c","h","e","m","a","-","l","o","a","d","e","r",".","j","s">>

loader_min_js ==
  <<"s","c","h","e","m","a","-","l","o","a","d","e","r",".","m","i","n",
    ".","j","s">>

dot_json == <<".","j","s","o","n">>

\* the characters the pattern [^\w\-_.] leaves alone
SafeChar(c) ==
  \/ \E i \in 1..26 : c = UpperAlpha[i] \/ c = LowerAlpha[i]
  \/ \E i \in 1..10 : c = Digits[i]
  \/ c \in {"_", "-", "."}

RECURSIVE StripSlashes(_)
\* str.strip('/')
StripSlashes(s) ==
  IF s = <<>> THEN s
  ELSE IF Head(s) = "/" THEN StripSlashes(Tail(s))
  ELSE IF s[Len(s)] = "/" THEN StripSlashes(SubSeq(s, 1, Len(s) - 1))
  ELSE s

\* re.sub(r'[^\w\-_.]', '_', s.replace('/', '_'))
Sanitize(s) == [i \in 1..Len(s) |-> IF SafeChar(s[i]) THEN s[i] ELSE "_"]

RECURSIVE IntToStr(_)
\* str(n) for n >= 0
IntToStr(n) ==
  IF n < 10 THEN <<Digits[n + 1]>>
  ELSE IntToStr(n \div 10) \o <<Digits[(n % 10) + 1]>>

\* the filename made from the URL path, src/app.py:368-375
PageFilename(url) ==
  IF url.path = <<"/">> \/ url.path = <<>> THEN homepage_json
  ELSE LET filename == Sanitize(StripSlashes(url.path))
       IN  IF EndsWith(filename, dot_json) THEN filename
           ELSE filename \o dot_json

\* the index of the last "." of s (rsplit('.', 1))
LastDot(s) == CHOOSE i \in 1..Len(s) :
                /\ s[i] = "."
                /\ \A k \in (i + 1)..Len(s) : s[k] # "."

RECURSIVE UniqueName(_, _, _)
\* the loop "while file_path.exists()", src/app.py:378-383
UniqueName(files, filename, counter) ==
  LET name == SubSeq(filename, 1, LastDot(filename) - 1)
      ext  == SubSeq(filename, LastDot(filename) + 1, Len(filename))
      file_path == IF counter = 0 THEN filename
                   ELSE name \o <<"_">> \o IntToStr(counter) \o <<".">> \o ext
  IN  IF file_path \in DOMAIN files
        THEN UniqueName(files, filename, counter + 1)
        ELSE file_path

\* open(path, 'w') and a dump of content
Put(files, name, content) ==
  [n \in (DOMAIN files) \cup {name} |-> IF n = name THEN content ELSE files[n]]

\* the points of packaging where the file system can fail
FsFaults ==
  {"none", "mkdir", "page", "index", "loader", "loader_min", "zip", "copy"}

\* title and meta description clean_content finds on the page at url; ""
\* when the page has none
Metadata(url) ==
  IF url = Home THEN [title |-> "Home", description |-> "The home page"]
  ELSE IF url = PageP THEN [title |-> "", description |-> "About us"]
  ELSE IF url = PageQ THEN [title |-> "Q", description |-> ""]
  ELSE [title |-> "", description |-> ""]

\* classify_content_type, src/app.py:571-590, on the text of the page
content_type(url) == IF url = PageP THEN "AboutPage" ELSE "WebPage"

\* what model.generate_content does: it raises, or its text is not JSON, is
\* JSON but no object, is an object without "@context" and "@type", or is
\* an object with both
InferOutcomes ==
  {"service_error", "unparseable", "not_mapping", "no_markers", "valid"}

\* the object json.loads gives for the text of the model
InferredObject(page_data, infer) ==
  IF infer = "valid"
    THEN ("@context" :> "https://schema.org") @@ ("@type" :> "Article")
         @@ ("name" :> "by the model")
    ELSE ("name" :> "by the model")

\* the fallback schema, src/app.py:647-655
FallbackSchema(page_data) ==
  ("@context" :> "https://schema.org") @@ ("@type" :> "WebPage")
  @@ ("name" :> (IF Metadata(page_data).title = "" THEN "Untitled Page"
                 ELSE Metadata(page_data).title))
  @@ ("description" :> (IF Metadata(page_data).description = ""
                          THEN "No description available"
                          ELSE Metadata(page_data).description))

\* the statements written for generate_json_ld, src/app.py:567-655, run
\* with page_data bound
generate_json_ld_body(page_data, infer) ==
  IF infer \in {"service_error", "unparseable", "not_mapping"}
    THEN FallbackSchema(page_data)
  ELSE LET json_ld == InferredObject(page_data, infer)
       IN  (IF "@context" \in DOMAIN json_ld THEN json_ld
            ELSE json_ld @@ ("@context" :> "https://schema.org")
                         @@ ("@type" :> content_type(page_data)))

\* the call generate_json_ld(page_data), src/app.py:365 and 784: the name
\* is looked up in the module, and no def binds it
generate_json_ld(page_data, infer) ==
  IF NameDefined("generate_json_ld")
    THEN [exc |-> "none", doc |-> generate_json_ld_body(page_data, infer)]
    ELSE [exc |-> "NameError", doc |-> << >>]

RECURSIVE SchemaCallsOf(_, _)
\* the calls of generate_json_ld one loop over the pages makes
SchemaCallsOf(pages_data, infer) ==
  IF pages_data = << >> THEN << >>
  ELSE LET g == generate_json_ld(Head(pages_data), infer)
       IN  <<[url |-> Head(pages_data), infer |-> infer, exc |-> g.exc,
              doc |-> g.doc]>>
           \o SchemaCallsOf(Tail(pages_data), infer)

RECURSIVE WritePages(_, _, _, _, _)
\* the loop over pages_data, src/app.py:362-415: a fault in one page is
\* caught and the page skipped
WritePages(pages_data, files, page_files, fault, infer) ==
  IF pages_data = <<>> THEN [files |-> files, page_files |-> page_files]
  ELSE
    LET page_data == Head(pages_data)
        file_path == UniqueName(files, PageFilename(page_data), 0)
    IN  IF generate_json_ld(page_data, infer).exc # "none" \/ fault = "page"
          THEN WritePages(Tail(pages_data), files, page_files, fault, infer)
          ELSE WritePages(Tail(pages_data),
                          Put(files, file_path,
                              [kind |-> "page", url |-> page_data]),
                          Append(page_files,
                                 [filename |-> file_path, url |-> page_data]),
                          fault, infer)

\* create_schema_loader_script, src/app.py:454-655: writes the loader and
\* its minified twin, then runs the statements that follow them
create_schema_loader_script(files, page_files, fault) ==
  IF fault = "loader" THEN [exc |-> "OSError", files |-> files]
  ELSE
    LET files1 == Put(files, loader_js,
                      [kind |-> "loader", pages |-> page_files])
    IN  IF fault = "loader_min" THEN [exc |-> "OSError", files |-> files1]
        ELSE
          LET files2 == Put(files1, loader_min_js,
                            [kind |-> "loader_min", pages |-> page_files])
          IN  [exc |-> IF NameDefined("page_data") THEN "none"
                       ELSE "NameError",
               files |-> files2]

NoFiles == << >>

\* create_website_folder_structure, src/app.py:352-452
create_website_folder_structure(pages_data, fault, infer) ==
  IF fault = "mkdir"
    THEN [exc |-> "OSError", dir |-> FALSE, files |-> NoFiles,
          page_files |-> << >>, zip |-> FALSE, cdn |-> FALSE]
  ELSE
    LET w == WritePages(pages_data, NoFiles, << >>, fault, infer)
    IN
    IF fault = "index"
      THEN [exc |-> "OSError", dir |-> TRUE, files |-> w.files,
            page_files |-> w.page_files, zip |-> FALSE, cdn |-> FALSE]
    ELSE
      LET files1 == Put(w.files, index_json,
                        [kind |-> "index", pages |-> w.page_files])
          l == create_schema_loader_script(files1, w.page_files, fault)
      IN
      IF l.exc # "none"
        THEN [exc |-> l.exc, dir |-> TRUE, files |-> l.files,
              page_files |-> w.page_files, zip |-> FALSE, cdn |-> FALSE]
      ELSE IF fault = "zip"
        THEN [exc |-> "OSError", dir |-> TRUE, files |-> l.files,
              page_files |-> w.page_files, zip |-> FALSE, cdn |-> FALSE]
      ELSE IF fault = "copy"
        THEN [exc |-> "OSError", dir |-> TRUE, files |-> l.files,
              page_files |-> w.page_files, zip |-> TRUE, cdn |-> FALSE]
      ELSE [exc |-> "none", dir |-> TRUE, files |-> l.files,
            page_files |-> w.page_files, zip |-> TRUE, cdn |-> TRUE]

\* ------------------------------------------------------------------------
\* State
\* ------------------------------------------------------------------------
VARIABLES
  crawl_jobs,   \* the registry: job id -> job record, or NoJob
  request,      \* the CrawlRequest run_crawl closes over, or NoRequest
  crawler,      \* the AsyncCrawler of the job's task, or NoCrawler
  pc,           \* where the job's task stands
  cur,          \* normalized_url of the running loop iteration
  running,      \* the task that holds the event loop, or Idle
  fs,           \* the files packaging made for the job
  response,     \* the response of the last API call
  fetchLog,     \* history: the fetch_rendered_page calls that returned
  packaging,    \* history: how the packaging stage of the job ended
  fetch,        \* one call of fetch_rendered_page, attempt by attempt
  schemaCalls,  \* history: the calls of generate_json_ld made for the job
  fnCall        \* the last call of a function that touches no job state

vars ==
  <<crawl_jobs, request, crawler, pc, cur, running, fs, response, fetchLog,
    packaging, fetch, schemaCalls, fnCall>>

NoJob == [status |-> "absent"]

NoRequest == [url |-> "none"]

NoCrawler == [start_url |-> "none"]

NoUrl == [scheme |-> "none"]

Idle == "idle"

\* no function has been called
NoCall == [fn |-> "none"]

\* no call of fetch_rendered_page has been made
NoFetch ==
  [pc |-> "idle", attempt |-> 0, outcomes |-> << >>, waits |-> << >>,
   ret |-> << >>, exc |-> "none"]

InRegistry(j) == crawl_jobs[j] # NoJob

\* min(request.max_pages or MAX_PAGES, MAX_PAGES), src/app.py:825
PageBudget(max_pages) ==
  Min(IF max_pages = 0 THEN MAX_PAGES ELSE max_pages, MAX_PAGES)

\* the messages appended to the error lists
FetchError(url) == [kind |-> "fetch", url |-> url, exc |-> "none"]

ProcessError(url) == [kind |-> "process", url |-> url, exc |-> "KeyError"]

JsonLdError(url) == [kind |-> "json_ld", url |-> url, exc |-> "NameError"]

CriticalError(exc) == [kind |-> "critical", url |-> NoUrl, exc |-> exc]

Init ==
  /\ crawl_jobs = [j \in Jobs |-> NoJob]
  /\ request = [j \in Jobs |-> NoRequest]
  /\ crawler = [j \in Jobs |-> NoCrawler]
  /\ pc = [j \in Jobs |-> "none"]
  /\ cur = [j \in Jobs |-> NoUrl]
  /\ running = Idle
  /\ fs = [j \in Jobs |->
             [dir |-> FALSE, files |-> NoFiles, zip |-> FALSE, cdn |-> FALSE]]
  /\ response = "none"
  /\ fetchLog = [j \in Jobs |-> << >>]
  /\ packaging = [j \in Jobs |-> "notrun"]
  /\ fetch = NoFetch
  /\ schemaCalls = [j \in Jobs |-> << >>]
  /\ fnCall = NoCall

\* ------------------------------------------------------------------------
\* API handlers
\* ------------------------------------------------------------------------
\* start_crawl with a seed that fails is_valid_url: HTTP 400
SubmitRejected(j, url, allow_backward, max_pages) ==
  /\ running = Idle
  /\ pc[j] = "none"
  /\ ~is_valid_url(url)
  /\ response' = "400"
  /\ UNCHANGED <<crawl_jobs, request, crawler, pc, cur, running, fs,
                 fetchLog, packaging, fetch, schemaCalls, fnCall>>

\* Submit without the test of the seed URL
Submit_NoValidation(j, url, allow_backward, max_pages) ==
  /\ running = Idle
  /\ pc[j] = "none"
  /\ crawl_jobs' = [crawl_jobs EXCEPT ![j] =
       [status |-> "initializing",
        progress |-> 0,
        total_pages |-> PageBudget(max_pages),
        current_url |-> NoUrl,
        completed_pages |-> << >>,
        json_ld_data |-> FALSE,
        errors |-> << >>,
        cdn_url |-> FALSE,
        download_url |-> FALSE,
        config |-> [start_url |-> url, allow_backward |-> allow_backward,
                    max_pages |-> PageBudget(max_pages)]]]
  /\ request' = [request EXCEPT ![j] =
       [url |-> url, allow_backward |-> allow_backward,
        max_pages |-> max_pages]]
  /\ pc' = [pc EXCEPT ![j] = "pending"]
  /\ response' = "started"
  /\ UNCHANGED <<crawler, cur, running, fs, fetchLog, packaging, fetch,
                 schemaCalls, fnCall>>

\* start_crawl, src/app.py:811-850: the job record is made and the task
\* run_crawl is handed to the background tasks
Submit(j, url, allow_backward, max_pages) ==
  /\ running = Idle
  /\ pc[j] = "none"
  /\ is_valid_url(url)
  /\ crawl_jobs' = [crawl_jobs EXCEPT ![j] =
       [status |-> "initializing",
        progress |-> 0,
        total_pages |-> PageBudget(max_pages),
        current_url |-> NoUrl,
        completed_pages |-> << >>,
        json_ld_data |-> FALSE,
        errors |-> << >>,
        cdn_url |-> FALSE,
        download_url |-> FALSE,
        config |-> [start_url |-> url, allow_backward |-> allow_backward,
                    max_pages |-> PageBudget(max_pages)]]]
  /\ request' = [request EXCEPT ![j] =
       [url |-> url, allow_backward |-> allow_backward,
        max_pages |-> max_pages]]
  /\ pc' = [pc EXCEPT ![j] = "pending"]
  /\ response' = "started"
  /\ UNCHANGED <<crawler, cur, running, fs, fetchLog, packaging, fetch,
                 schemaCalls, fnCall>>

\* delete_job, src/app.py:941-948
Delete(j) ==
  /\ running = Idle
  /\ InRegistry(j)
  /\ crawl_jobs' = [crawl_jobs EXCEPT ![j] = NoJob]
  /\ response' = "deleted"
  /\ UNCHANGED <<request, crawler, pc, cur, running, fs, fetchLog, packaging,
                 fetch, schemaCalls, fnCall>>

\* ------------------------------------------------------------------------
\* The task of a job: run_crawl and AsyncCrawler.crawl
\* ------------------------------------------------------------------------
\* AsyncCrawler.__init__, src/app.py:659-668
NewCrawler(start_url, allow_backward, max_pages) ==
  [start_url |-> start_url,
   allow_backward |-> allow_backward,
   max_pages |-> max_pages,
   visited |-> {},
   queue |-> <<start_url>>,
   domain |-> start_url.netloc,
   results |-> << >>,
   errors |-> << >>]

\* should_visit without the test of the visited set
should_visit_NoVisitedTest(self, url) ==
  LET normalized_url == normalize_url(url)
  IN  IF ~is_valid_url(normalized_url) THEN FALSE
      ELSE IF ~self.allow_backward /\ normalized_url.netloc # self.domain
        THEN FALSE
      ELSE TRUE

\* should_visit without the domain restriction
should_visit_NoDomainTest(self, url) ==
  LET normalized_url == normalize_url(url)
  IN  IF normalized_url \in self.visited THEN FALSE
      ELSE IF ~is_valid_url(normalized_url) THEN FALSE
      ELSE TRUE

\* AsyncCrawler.should_visit, src/app.py:670-687
should_visit(self, url) ==
  LET normalized_url == normalize_url(url)
  IN  IF normalized_url \in self.visited THEN FALSE
      ELSE IF ~is_valid_url(normalized_url) THEN FALSE
      ELSE IF ~self.allow_backward /\ normalized_url.netloc # self.domain
        THEN FALSE
      ELSE TRUE

\* the head is read but not removed (queue[0] in place of pop(0))
PopQueue_Keeps(queue) == queue

\* list.pop(0): what is left of the queue
PopQueue(queue) == Tail(queue)

\* the condition of the while loop, src/app.py:695
LoopCondition(self) ==
  self.queue # << >> /\ Cardinality(self.visited) < self.max_pages

\* extract_links, src/app.py:204-229: the set of the valid normalized links
extract_links(base_url) ==
  {normalize_url(full_url) : full_url \in
     {h \in Hrefs(base_url) : is_valid_url(normalize_url(h))}}

RECURSIVE QueueLinks_NoPendingTest(_, _)
\* QueueLinks without the test "link not in self.queue"
QueueLinks_NoPendingTest(self, new_links) ==
  IF new_links = << >> THEN self
  ELSE LET link == Head(new_links)
       IN  QueueLinks_NoPendingTest(
             IF should_visit(self, link)
               THEN [self EXCEPT !.queue = Append(self.queue, link)]
               ELSE self,
             Tail(new_links))

RECURSIVE QueueLinks(_, _)
\* the loop over new_links, src/app.py:744-746
QueueLinks(self, new_links) ==
  IF new_links = << >> THEN self
  ELSE LET link == Head(new_links)
       IN  QueueLinks(
             IF should_visit(self, link) /\ link \notin Range(self.queue)
               THEN [self EXCEPT !.queue = Append(self.queue, link)]
               ELSE self,
             Tail(new_links))

\* Handler, but the failed job is put back to initializing for a retry
Handler_Retry(j, self, exc) ==
  IF InRegistry(j)
    THEN /\ crawl_jobs' = [crawl_jobs EXCEPT ![j] =
              [@ EXCEPT !.status = "initializing",
                        !.errors = self.errors \o <<CriticalError(exc)>>]]
         /\ pc' = [pc EXCEPT ![j] = "done"]
    ELSE /\ pc' = [pc EXCEPT ![j] = "raised"]
         /\ UNCHANGED crawl_jobs

\* Handler, but the error list is replaced by the diagnostic alone
Handler_DropsErrors(j, self, exc) ==
  IF InRegistry(j)
    THEN /\ crawl_jobs' = [crawl_jobs EXCEPT ![j] =
              [@ EXCEPT !.status = "failed",
                        !.errors = <<CriticalError(exc)>>]]
         /\ pc' = [pc EXCEPT ![j] = "done"]
    ELSE /\ pc' = [pc EXCEPT ![j] = "raised"]
         /\ UNCHANGED crawl_jobs

\* the handler at src/app.py:802-806, entered with self as the task left it
Handler(j, self, exc) ==
  IF InRegistry(j)
    THEN /\ crawl_jobs' = [crawl_jobs EXCEPT ![j] =
              [@ EXCEPT !.status = "failed",
                        !.errors = self.errors \o <<CriticalError(exc)>>]]
         /\ pc' = [pc EXCEPT ![j] = "done"]
    ELSE \* crawl_jobs[self.job_id] raises KeyError inside the handler
         /\ pc' = [pc EXCEPT ![j] = "raised"]
         /\ UNCHANGED crawl_jobs

\* run_crawl starts: the crawler is made and crawl runs to its loop
Begin(j) ==
  /\ running = Idle
  /\ pc[j] = "pending"
  /\ LET self == NewCrawler(request[j].url, request[j].allow_backward,
                            PageBudget(request[j].max_pages))
     IN  /\ crawler' = [crawler EXCEPT ![j] = self]
         /\ IF InRegistry(j)
              THEN /\ crawl_jobs' =
                        [crawl_jobs EXCEPT ![j].status = "crawling"]
                   /\ pc' = [pc EXCEPT ![j] = "head"]
                   /\ running' = j
              ELSE /\ Handler(j, self, "KeyError")
                   /\ running' = Idle
  /\ UNCHANGED <<request, cur, fs, response, fetchLog, packaging, fetch,
                 schemaCalls, fnCall>>

\* a loop iteration from the pop of the queue to "continue" (the candidate
\* is not to be visited) or to the await of fetch_rendered_page,
\* src/app.py:695-710
Iterate(j) ==
  /\ running = j
  /\ pc[j] = "head"
  /\ LoopCondition(crawler[j])
  /\ Len(fetchLog[j]) < MaxFetches
  /\ LET normalized_url == normalize_url(Head(crawler[j].queue))
         self == [crawler[j] EXCEPT !.queue = PopQueue(@)]
     IN  /\ crawler' = [crawler EXCEPT ![j] = self]
         /\ IF ~should_visit(self, normalized_url)
              THEN UNCHANGED <<crawl_jobs, pc, cur, running>>
              ELSE /\ IF InRegistry(j)
                        THEN /\ crawl_jobs' = [crawl_jobs EXCEPT ![j] =
                                  [@ EXCEPT
                                     !.current_url = normalized_url,
                                     !.progress = Cardinality(self.visited)]]
                             /\ pc' = [pc EXCEPT ![j] = "fetching"]
                             /\ cur' = [cur EXCEPT ![j] = normalized_url]
                        ELSE /\ Handler(j, self, "KeyError")
                             /\ UNCHANGED cur
                   /\ running' = Idle
  /\ UNCHANGED <<request, fs, response, fetchLog, packaging, fetch,
                 schemaCalls, fnCall>>

\* FetchFailed, but "continue" is missing and the rate-limit sleep follows
FetchFailed_Sleeps(j) ==
  /\ running = Idle
  /\ pc[j] = "fetching"
  /\ crawler' = [crawler EXCEPT ![j].errors = Append(@, FetchError(cur[j]))]
  /\ fetchLog' = [fetchLog EXCEPT ![j] =
                    Append(@, [url |-> cur[j], ok |-> FALSE])]
  /\ pc' = [pc EXCEPT ![j] = "sleeping"]
  /\ UNCHANGED <<crawl_jobs, request, cur, running, fs, response, packaging,
                 fetch, schemaCalls, fnCall>>

\* FetchFailed, but the URL is marked visited before the test of html
FetchFailed_MarksVisited(j) ==
  /\ running = Idle
  /\ pc[j] = "fetching"
  /\ crawler' = [crawler EXCEPT ![j] =
       [@ EXCEPT !.errors = Append(@, FetchError(cur[j])),
                 !.visited = @ \cup {cur[j]}]]
  /\ fetchLog' = [fetchLog EXCEPT ![j] =
                    Append(@, [url |-> cur[j], ok |-> FALSE])]
  /\ pc' = [pc EXCEPT ![j] = "head"]
  /\ running' = j
  /\ UNCHANGED <<crawl_jobs, request, cur, fs, response, packaging, fetch,
                 schemaCalls, fnCall>>

\* fetch_rendered_page returned "", src/app.py:712-716
FetchFailed(j) ==
  /\ running = Idle
  /\ pc[j] = "fetching"
  /\ crawler' = [crawler EXCEPT ![j].errors = Append(@, FetchError(cur[j]))]
  /\ fetchLog' = [fetchLog EXCEPT ![j] =
                    Append(@, [url |-> cur[j], ok |-> FALSE])]
  /\ pc' = [pc EXCEPT ![j] = "head"]
  /\ running' = j
  /\ UNCHANGED <<crawl_jobs, request, cur, fs, response, packaging, fetch,
                 schemaCalls, fnCall>>

\* FetchReturned with one completed_pages list shared by the records
FetchReturned_SharedPages(j, new_links) ==
  /\ running = Idle
  /\ pc[j] = "fetching"
  /\ LET self1 == [crawler[j] EXCEPT
                     !.visited = @ \cup {cur[j]},
                     !.results = Append(@, cur[j])]
     IN  IF InRegistry(j)
           THEN /\ crawl_jobs' =
                     [k \in Jobs |->
                        IF InRegistry(k)
                          THEN [crawl_jobs[k] EXCEPT
                                  !.completed_pages = Append(@, cur[j])]
                          ELSE crawl_jobs[k]]
                /\ crawler' =
                     [crawler EXCEPT ![j] = QueueLinks(self1, new_links)]
           ELSE /\ crawler' = [crawler EXCEPT ![j] =
                     [self1 EXCEPT
                        !.errors = Append(@, ProcessError(cur[j]))]]
                /\ UNCHANGED crawl_jobs
  /\ fetchLog' = [fetchLog EXCEPT ![j] =
                    Append(@, [url |-> cur[j], ok |-> TRUE])]
  /\ pc' = [pc EXCEPT ![j] = "sleeping"]
  /\ UNCHANGED <<request, cur, running, fs, response, packaging, fetch,
                 schemaCalls, fnCall>>

\* fetch_rendered_page returned markup: the page is processed up to the
\* rate-limit sleep, src/app.py:718-756
FetchReturned(j, new_links) ==
  /\ running = Idle
  /\ pc[j] = "fetching"
  /\ LET self1 == [crawler[j] EXCEPT
                     !.visited = @ \cup {cur[j]},
                     !.results = Append(@, cur[j])]
     IN  IF InRegistry(j)
           THEN /\ crawl_jobs' = [crawl_jobs EXCEPT
                     ![j].completed_pages = Append(@, cur[j])]
                /\ crawler' =
                     [crawler EXCEPT ![j] = QueueLinks(self1, new_links)]
           ELSE \* KeyError at 728, caught at 750
                /\ crawler' = [crawler EXCEPT ![j] =
                     [self1 EXCEPT
                        !.errors = Append(@, ProcessError(cur[j]))]]
                /\ UNCHANGED crawl_jobs
  /\ fetchLog' = [fetchLog EXCEPT ![j] =
                    Append(@, [url |-> cur[j], ok |-> TRUE])]
  /\ pc' = [pc EXCEPT ![j] = "sleeping"]
  /\ UNCHANGED <<request, cur, running, fs, response, packaging, fetch,
                 schemaCalls, fnCall>>

\* asyncio.sleep(RATE_LIMIT_DELAY) is over, src/app.py:756
Wake(j) ==
  /\ running = Idle
  /\ pc[j] = "sleeping"
  /\ pc' = [pc EXCEPT ![j] = "head"]
  /\ running' = j
  /\ UNCHANGED <<crawl_jobs, request, crawler, cur, fs, response, fetchLog,
                 packaging, fetch, schemaCalls, fnCall>>

RECURSIVE JsonLdErrors(_, _)
\* the errors of the loop at src/app.py:778-790
JsonLdErrors(results, infer) ==
  IF results = << >> THEN << >>
  ELSE (IF generate_json_ld(Head(results), infer).exc = "none" THEN << >>
        ELSE <<JsonLdError(Head(results))>>)
       \o JsonLdErrors(Tail(results), infer)

\* the loop has ended: packaging and the final update, src/app.py:758-808
Package(j, fault, infer) ==
  /\ running = j
  /\ pc[j] = "head"
  /\ ~LoopCondition(crawler[j])
  /\ LET p == create_website_folder_structure(crawler[j].results, fault,
                                              infer)
     IN  /\ schemaCalls' = [schemaCalls EXCEPT ![j] =
               (IF p.dir THEN SchemaCallsOf(crawler[j].results, infer)
                ELSE << >>)
               \o (IF p.exc = "none"
                     THEN SchemaCallsOf(crawler[j].results, infer)
                     ELSE << >>)]
         /\ fs' = [fs EXCEPT ![j] =
                     [dir |-> p.dir, files |-> p.files, zip |-> p.zip,
                      cdn |-> p.cdn]]
         /\ packaging' = [packaging EXCEPT ![j] =
                            IF p.exc = "none" THEN "ok"
                            ELSE IF p.exc = "OSError" THEN "fsfault"
                            ELSE "fault"]
         /\ IF p.exc # "none"
              THEN /\ Handler(j, crawler[j], p.exc)
                   /\ UNCHANGED crawler
              ELSE LET self == [crawler[j] EXCEPT
                         !.errors =
                            @ \o JsonLdErrors(crawler[j].results, infer)]
                   IN  /\ crawler' = [crawler EXCEPT ![j] = self]
                       /\ IF InRegistry(j)
                            THEN /\ crawl_jobs' = [crawl_jobs EXCEPT ![j] =
                                      [@ EXCEPT
                                         !.json_ld_data = TRUE,
                                         !.status = "completed",
                                         !.progress =
                                            Cardinality(self.visited),
                                         !.errors = self.errors,
                                         !.cdn_url = TRUE,
                                         !.download_url = TRUE]]
                                 /\ pc' = [pc EXCEPT ![j] = "done"]
                            ELSE Handler(j, self, "KeyError")
  /\ running' = Idle
  /\ UNCHANGED <<request, cur, response, fetchLog, fetch, fnCall>>

\* ------------------------------------------------------------------------
\* fetch_rendered_page, src/app.py:160-202
\* ------------------------------------------------------------------------
max_retries == 3

\* "len(content) > 100", src/app.py:187
MeaningfulLength == 100

\* the lengths of the markup page.content() gives; 0 is None or ""
MarkupLengths ==
  {0, MeaningfulLength - 1, MeaningfulLength, MeaningfulLength + 1}

\* what the browser does in one attempt: launch, new_context or new_page
\* raises; goto raises or times out, and the close of the handler succeeds
\* or raises too; page.content() gives markup and the close after it
\* succeeds or raises
RenderOutcomes ==
  {[kind |-> k, len |-> 0] :
     k \in {"launch_raises", "goto_raises", "goto_and_close_raise"}}
  \cup {[kind |-> k, len |-> n] :
          k \in {"content", "close_raises"}, n \in MarkupLengths}

\* the attempt reaches "return content", src/app.py:184-188
AttemptReturns(outcome) ==
  outcome.kind = "content" /\ outcome.len > MeaningfulLength

\* the other frame of the fetch steps
JobVars ==
  <<crawl_jobs, request, crawler, pc, cur, running, fs, response, fetchLog,
    packaging, schemaCalls>>

\* the call: the first pass of "for attempt in range(max_retries)"
FetchBegin ==
  /\ fetch.pc \in {"idle", "returned"}
  /\ fetch' = [NoFetch EXCEPT !.pc = IF max_retries > 0 THEN "render"
                                     ELSE "returned",
                              !.ret = IF max_retries > 0 THEN << >>
                                      ELSE <<0>>]
  /\ UNCHANGED <<JobVars, fnCall>>

\* RenderAttempt with the backoff after the last attempt too
RenderAttempt_AlwaysBacksOff(outcome) ==
  /\ fetch.pc = "render"
  /\ LET f == [fetch EXCEPT !.outcomes = Append(@, outcome)]
     IN  fetch' =
           IF AttemptReturns(outcome)
             THEN [f EXCEPT !.pc = "returned", !.ret = <<outcome.len>>]
           ELSE [f EXCEPT !.pc = "backoff",
                          !.waits = Append(@, 1 * (fetch.attempt + 1))]
  /\ UNCHANGED <<JobVars, fnCall>>

\* one pass of the loop up to its next await or its return: the attempt
\* returns the markup, or fails (every exception is caught at 190 or 194)
\* and the call sleeps before the next attempt or returns ""
RenderAttempt(outcome) ==
  /\ fetch.pc = "render"
  /\ LET f == [fetch EXCEPT !.outcomes = Append(@, outcome)]
     IN  fetch' =
           IF AttemptReturns(outcome)
             THEN [f EXCEPT !.pc = "returned", !.ret = <<outcome.len>>]
           ELSE IF fetch.attempt < max_retries - 1
             THEN [f EXCEPT !.pc = "backoff",
                            !.waits = Append(@, 1 * (fetch.attempt + 1))]
           ELSE [f EXCEPT !.pc = "returned", !.ret = <<0>>]
  /\ UNCHANGED <<JobVars, fnCall>>

\* asyncio.sleep(1 * (attempt + 1)) is over: the next pass of the loop
BackoffOver ==
  /\ fetch.pc = "backoff"
  /\ fetch' = IF fetch.attempt + 1 < max_retries
                THEN [fetch EXCEPT !.pc = "render", !.attempt = @ + 1]
                ELSE [fetch EXCEPT !.pc = "returned", !.attempt = @ + 1,
                                   !.ret = <<0>>]
  /\ UNCHANGED <<JobVars, fnCall>>

\* ------------------------------------------------------------------------
\* Functions that touch no job state, called one at a time
\* ------------------------------------------------------------------------
\* the frame of a call
CallFrame == <<JobVars, fetch>>

\* the call returns to its caller, which makes the next one
CallReturn ==
  /\ fnCall # NoCall
  /\ fnCall' = NoCall
  /\ UNCHANGED CallFrame

\* the keys of the metadata dict, src/app.py:240-254
MetadataKeys ==
  {"title", "description", "robots", "keywords", "canonical_url", "h1_tags",
   "h2_tags", "h3_tags", "image_alt_texts", "internal_links",
   "external_links", "word_count", "language"}

\* the markup given to clean_content: what its title, its description meta
\* tag, its lang attribute and its first heading hold ("" when absent),
\* and whether parsing or markdownify raises on it
Markups ==
  [title : {"", "T"}, description : {"", "D"}, lang : {"", "en"},
   h1 : {"", "H"}, fault : {"none", "BeautifulSoup", "markdownify"}]

\* the metadata dict of the try block, src/app.py:240-315
ExtractedMetadata(html) ==
  [k \in MetadataKeys |->
     IF k = "title" THEN html.title
     ELSE IF k = "description" THEN html.description
     ELSE IF k = "language" THEN html.lang
     ELSE IF k \in {"robots", "keywords", "canonical_url"} THEN ""
     ELSE IF k = "h1_tags"
       THEN (IF html.h1 = "" THEN << >> ELSE <<html.h1>>)
     ELSE IF k = "word_count" THEN (IF html.h1 = "" THEN 0 ELSE 1)
     ELSE << >>]

\* the metadata dict of the except clause, src/app.py:336-346
FaultMetadata ==
  [k \in {"title", "description", "word_count", "h1_tags", "h2_tags",
          "h3_tags", "image_alt_texts", "internal_links",
          "external_links"} |->
     IF k = "title" THEN "Error processing page"
     ELSE IF k = "description" THEN ""
     ELSE IF k = "word_count" THEN 0
     ELSE << >>]

\* clean_content, src/app.py:231-350
clean_content(html) ==
  IF html.fault = "none"
    THEN [exc |-> "none", metadata |-> ExtractedMetadata(html),
          markdown |-> html.h1]
    ELSE [exc |-> "none", metadata |-> FaultMetadata, markdown |-> ""]

CallCleanContent(html) ==
  /\ fnCall = NoCall
  /\ fnCall' = [fn |-> "clean_content", arg |-> html,
                result |-> clean_content(html)]
  /\ UNCHANGED CallFrame

\* the characters a scheme is made of, urllib.parse.scheme_chars
scheme_chars ==
  Range(LowerAlpha) \cup Range(UpperAlpha) \cup Range(Digits)
    \cup {"+", "-", "."}

\* the schemes after which urlunsplit writes "//" also for an empty host,
\* urllib.parse.uses_netloc (those of its schemes the inputs can hold)
uses_netloc == {http, https, ftp, sftp}

\* the index of the first character of s at or after from that is one of
\* chars, Len(s) + 1 when there is none
Find(s, chars, from) ==
  IF \E i \in from..Len(s) : s[i] \in chars
    THEN CHOOSE i \in from..Len(s) :
           s[i] \in chars /\ \A k \in from..(i - 1) : s[k] \notin chars
    ELSE Len(s) + 1

\* s[a:] of Python, with a counted from 1
From(s, a) == IF a > Len(s) THEN << >> ELSE SubSeq(s, a, Len(s))

\* s[:b] of Python, with b the last index kept
UpTo(s, b) == IF b < 1 THEN << >> ELSE SubSeq(s, 1, Min(b, Len(s)))

\* urlparse raised ValueError("Invalid IPv6 URL")
ValueError == [exc |-> "ValueError"]

\* urlparse(url) of urllib.parse on the text of a URL, as src/app.py:152
\* calls it: the scheme is what precedes the first ":" when that is made of
\* scheme characters and starts with a letter, and is lower-cased; the host
\* is what follows a leading "//" up to the next "/", "?" or "#"; the
\* fragment is what follows the first "#", the query what follows the
\* first "?" before it; a host with one bracket and not the other raises
urlparse(url) ==
  LET i == Find(url, {":"}, 1)
      hasScheme ==
        /\ 1 < i
        /\ i <= Len(url)
        /\ url[1] \in Range(LowerAlpha) \cup Range(UpperAlpha)
        /\ \A k \in 1..(i - 1) : url[k] \in scheme_chars
      scheme == IF hasScheme THEN Lower(UpTo(url, i - 1)) ELSE << >>
      rest == IF hasScheme THEN From(url, i + 1) ELSE url
      hasNetloc == Len(rest) >= 2 /\ UpTo(rest, 2) = <<"/", "/">>
      d == Find(rest, {"/", "?", "#"}, 3)
      netloc ==
        IF hasNetloc /\ d > 3 THEN SubSeq(rest, 3, d - 1) ELSE << >>
      afterNetloc == IF hasNetloc THEN From(rest, d) ELSE rest
      h == Find(afterNetloc, {"#"}, 1)
      fragment == From(afterNetloc, h + 1)
      beforeFragment == UpTo(afterNetloc, h - 1)
      q == Find(beforeFragment, {"?"}, 1)
      query == From(beforeFragment, q + 1)
      path == UpTo(beforeFragment, q - 1)
  IN  IF ("[" \in Range(netloc)) # ("]" \in Range(netloc))
        THEN ValueError
        ELSE Url(scheme, netloc, path, query, fragment)

\* parsed.geturl() of urllib.parse, as src/app.py:153 calls it: "//" and
\* the host are written when there is a host, and also when the scheme is
\* one of uses_netloc and the path does not start with "//"; a path that
\* then does not start with "/" gets one; an empty query or fragment is
\* not written
geturl(parsed) ==
  LET path == parsed.path
      withNetloc ==
        IF \/ parsed.netloc # << >>
           \/ /\ parsed.scheme # << >>
              /\ parsed.scheme \in uses_netloc
              /\ UpTo(path, 2) # <<"/", "/">>
          THEN <<"/", "/">> \o parsed.netloc
                 \o (IF path # << >> /\ path[1] # "/"
                       THEN <<"/">> \o path ELSE path)
          ELSE path
      withScheme ==
        IF parsed.scheme # << >>
          THEN parsed.scheme \o <<":">> \o withNetloc ELSE withNetloc
      withQuery ==
        IF parsed.query # << >>
          THEN withScheme \o <<"?">> \o parsed.query ELSE withScheme
  IN  IF parsed.fragment # << >>
        THEN withQuery \o <<"#">> \o parsed.fragment ELSE withQuery

\* normalize_url on the text of a URL, src/app.py:150-158: the text is
\* parsed, the fragment replaced by '' and the result written back; when
\* urlparse raises the text is returned as it is
normalize_url_text(url) ==
  IF urlparse(url) = ValueError THEN url
  ELSE geturl(normalize_url(urlparse(url)))

\* the texts normalize_url is called on: a scheme or none, "//" and a host
\* or none, a path, a query, a fragment
SchemeTexts == {<< >>, http \o <<":">>, Lower(https) \o <<":">>,
                <<"H","T","T","P",":">>}

NetlocTexts == {<< >>, <<"/","/">>, <<"/","/">> \o HostA, <<"/","/","[","a">>}

PathTexts == {<< >>, <<"/","p">>, <<"/","/","x">>, <<"p">>}

QueryTexts == {<< >>, <<"?">>, <<"?","q">>}

FragmentTexts == {<< >>, <<"#">>, <<"#","s">>, <<"#","s","#","t">>}

UrlTexts ==
  {s \o n \o p \o q \o f :
     s \in SchemeTexts, n \in NetlocTexts, p \in PathTexts,
     q \in QueryTexts, f \in FragmentTexts}

CallNormalizeUrl(url) ==
  /\ fnCall = NoCall
  /\ fnCall' = [fn |-> "normalize_url", arg |-> url,
                result |-> normalize_url_text(url)]
  /\ UNCHANGED CallFrame

\* is_valid_url on the text of a URL, src/app.py:93-148: the text is
\* parsed (96), and an exception of the parse gives False (146-148)
is_valid_url_text(url) ==
  IF urlparse(url) = ValueError THEN FALSE
  ELSE is_valid_url(urlparse(url))

\* the texts is_valid_url is called on: a scheme, a host, a path, a
\* fragment or none
HostLinkedIn == <<"w","w","w",".">> \o linkedin_com

HostChat == <<"c","h","a","t",".","c","o","m">>

HostSubShort == <<"a",".">> \o HostShort

ValidityHosts == {HostA, HostLinkedIn, HostChat, HostShort, HostSubShort}

ValidityPaths ==
  {<< >>, <<"/">>, <<"/","x">>,
   company_dir \o <<"x">>,
   <<"/","j","o","b","s">> \o company_dir \o <<"x">>,
   <<"/","i","n","/","x">>,
   company_dir \o <<"x",".","p","d","f">>}

ValidityTexts ==
  {s \o <<":","/","/">> \o n \o p \o f :
     s \in {http, https, ftp}, n \in ValidityHosts, p \in ValidityPaths,
     f \in {<< >>, <<"#","s">>}}

CallIsValidUrl(url) ==
  /\ fnCall = NoCall
  /\ fnCall' = [fn |-> "is_valid_url", arg |-> url,
                result |-> is_valid_url_text(url)]
  /\ UNCHANGED CallFrame

\* the pathname a browser gives for a URL: "/" for an empty path
pathname(url) == IF url.path = << >> THEN <<"/">> ELSE url.path

\* window.location.href: the text of the URL the browser is at
href(location) == geturl([location EXCEPT !.path = pathname(location)])

\* what a lookup without result gives in the script (undefined)
undefined == << >>

RECURSIVE FindPage(_, _, _)
\* the loop over PAGE_SCHEMAS of getCurrentPageSchema, src/app.py:473-491:
\* for each page in turn the exact match, the path match and the homepage
\* match are tried, and the first page that passes one of them is returned
FindPage(PAGE_SCHEMAS, currentUrl, currentPath) ==
  IF PAGE_SCHEMAS = << >> THEN undefined
  ELSE
    LET page == Head(PAGE_SCHEMAS)
        pagePath == pathname(urlparse(page.url))
    IN  IF currentUrl = page.url THEN page.filename
        ELSE IF currentPath = pagePath THEN page.filename
        ELSE IF /\ currentPath \in {<<"/">>, << >>}
                /\ (pagePath = <<"/">> \/ page.filename = homepage_json)
          THEN page.filename
        ELSE FindPage(Tail(PAGE_SCHEMAS), currentUrl, currentPath)

\* getCurrentPageSchema of the loader script, src/app.py:468-496, with the
\* browser at location
getCurrentPageSchema(PAGE_SCHEMAS, location) ==
  LET found == FindPage(PAGE_SCHEMAS, href(location), pathname(location))
  IN  IF found # undefined THEN found
      ELSE IF \E i \in 1..Len(PAGE_SCHEMAS) :
                PAGE_SCHEMAS[i].filename = homepage_json
        THEN homepage_json
      ELSE IF PAGE_SCHEMAS # << >> THEN PAGE_SCHEMAS[1].filename
      ELSE undefined

RECURSIVE PageFiles(_, _)
\* the page_files list of a batch of pages whose documents were all
\* written, src/app.py:367-411: the url of the record and the name under
\* which its document was written
PageFiles(pages_data, page_files) ==
  IF pages_data = << >> THEN page_files
  ELSE
    LET taken == [n \in {page_files[i].filename :
                           i \in 1..Len(page_files)} |-> TRUE]
        file_path == UniqueName(taken, PageFilename(Head(pages_data)), 0)
    IN  PageFiles(Tail(pages_data),
                  Append(page_files,
                         [filename |-> file_path,
                          url |-> geturl(Head(pages_data))]))

\* a page with a query
PagePQuery == Url(http, HostA, <<"/","p">>, <<"q">>, <<>>)

\* the longest page list embedded in a loader
MaxPages == 3

\* the pages a loader is made for
LoaderPages == {Home, PageP, PagePQuery, PageQ}

\* the page lists embedded in a loader: each page at most once
LoaderPageLists ==
  {PageFiles(order, << >>) :
     order \in UNION {Orders(S) :
                        S \in {T \in SUBSET LoaderPages :
                                 Cardinality(T) <= MaxPages}}}

\* where the browser that runs the loader is
Locations ==
  LoaderPages
    \cup {PagePSec, Url(http, HostA, << >>, << >>, << >>),
          Url(http, HostA, <<"/","z">>, << >>, << >>)}

CallGetCurrentPageSchema(PAGE_SCHEMAS, location) ==
  /\ fnCall = NoCall
  /\ fnCall' = [fn |-> "getCurrentPageSchema",
                arg |-> [PAGE_SCHEMAS |-> PAGE_SCHEMAS,
                         location |-> location],
                result |-> getCurrentPageSchema(PAGE_SCHEMAS, location)]
  /\ UNCHANGED CallFrame

\* the text of a script, token by token: white space (a blank or a line
\* break), the mark "//" that starts a line comment, and any other text;
\* v is the page list a token embeds, n the name it embeds
Ws(s) == [t |-> "ws", s |-> s, v |-> << >>, n |-> << >>]

LineComment == [t |-> "//", s |-> "//", v |-> << >>, n |-> << >>]

Text(s) == [t |-> "text", s |-> s, v |-> << >>, n |-> << >>]

\* a name put into the text by the f-string
Name(n) == [t |-> "text", s |-> "", v |-> << >>, n |-> n]

\* CDN_BASE_URL, src/app.py:54
CDN_BASE_URL == Text("http://localhost:8000/cdn")

\* a line of the script: indentation, tokens, line break
Line(tokens) == <<Ws(" ")>> \o tokens \o <<Ws("\n")>>

\* a line that holds a comment only
CommentLine(s) == Line(<<LineComment, Ws(" "), Text(s)>>)

\* script_content, src/app.py:457-556: the f-string of
\* create_schema_loader_script, with its comment lines where the source
\* has them
script_content(domain, job_id, page_files) ==
  <<Ws("\n")>>
    \o CommentLine("Schema Loader for")
    \o CommentLine("Generated on")
    \o CommentLine("Job ID:")
    \o <<Ws("\n")>>
    \o Line(<<Text("(function() {")>>)
    \o Line(<<Text("'use strict';")>>)
    \o Line(<<Text("const"), Ws(" "), Text("SCHEMA_BASE_URL"), Ws(" "),
              Text("="), Ws(" "), Text("'"), CDN_BASE_URL, Text("/"),
              Name(domain \o <<"_">> \o job_id), Text("/"), Text("';")>>)
    \o Line(<<[t |-> "text", s |-> "const PAGE_SCHEMAS =",
               v |-> page_files, n |-> << >>]>>)
    \o Line(<<Text("function getCurrentPageSchema() {")>>)
    \o CommentLine("Find matching schema based on URL or path")
    \o Line(<<Text("for (const page of PAGE_SCHEMAS) {")>>)
    \o CommentLine("Exact URL match")
    \o Line(<<Text("if (currentUrl === page.url)"), Ws(" "),
              Text("return page.filename;")>>)
    \o CommentLine("Path match")
    \o Line(<<Text("if (currentPath === pagePath)"), Ws(" "),
              Text("return page.filename;")>>)
    \o CommentLine("Homepage match")
    \o Line(<<Text("if (homepage)"), Ws(" "),
              Text("return page.filename;")>>)
    \o Line(<<Text("}")>>)
    \o CommentLine("Default to homepage schema if no match found")
    \o Line(<<Text("return PAGE_SCHEMAS.find(...);")>>)
    \o Line(<<Text("}")>>)
    \o Line(<<Text("async function loadAndInjectSchema() {...}")>>)
    \o CommentLine("Load schema when DOM is ready")
    \o Line(<<Text("loadAndInjectSchema();")>>)
    \o CommentLine("Expose utility functions")
    \o Line(<<Text("window.SchemaLoader = {...};")>>)
    \o Line(<<Text("})();")>>)

\* the members of s at the indices of keep, in their order
Pick(s, keep) ==
  [k \in 1..Cardinality(keep) |->
     s[CHOOSE i \in keep : Cardinality({m \in keep : m <= i}) = k]]

\* re.sub(r'\s+', ' ', script): every run of white space becomes a blank
Collapse(script) ==
  Pick([i \in 1..Len(script) |->
          IF script[i].t = "ws" THEN Ws(" ") ELSE script[i]],
       {i \in 1..Len(script) :
          \/ script[i].t # "ws"
          \/ i = Len(script)
          \/ script[i + 1].t # "ws"})

\* str.strip() of a text with collapsed white space
Strip(script) ==
  LET a == IF script # << >> /\ Head(script).t = "ws" THEN 2 ELSE 1
      b == IF script # << >> /\ script[Len(script)].t = "ws"
             THEN Len(script) - 1 ELSE Len(script)
  IN  IF a > b THEN << >> ELSE SubSeq(script, a, b)

\* minified_content, src/app.py:563
minified_content(script) == Strip(Collapse(script))

\* token i of the script stands in a line comment: a "//" precedes it with
\* no line break in between
InComment(script, i) ==
  \E j \in 1..(i - 1) :
    /\ script[j].t = "//"
    /\ \A k \in j..i : ~(script[k].t = "ws" /\ script[k].s = "\n")

\* what a JavaScript engine executes of a script: the text outside line
\* comments, a line comment running from "//" to the next line break
Statements(script) ==
  Pick(script,
       {i \in 1..Len(script) :
          script[i].t = "text" /\ ~InComment(script, i)})

\* the two texts create_schema_loader_script writes, src/app.py:558-566
CallCreateSchemaLoaderScript(domain, job_id, page_files) ==
  /\ fnCall = NoCall
  /\ fnCall' = [fn |-> "create_schema_loader_script",
                arg |-> [domain |-> domain, job_id |-> job_id,
                         page_files |-> page_files],
                result |->
                  [script_content |->
                     script_content(domain, job_id, page_files),
                   minified_content |->
                     minified_content(
                       script_content(domain, job_id, page_files))]]
  /\ UNCHANGED CallFrame

\* str.replace(old, new) for one-character strings
Replace(s, old, new) == [i \in 1..Len(s) |-> IF s[i] = old THEN new ELSE s[i]]

\* STORAGE_DIR, src/app.py:42, and the base of the repository,
\* src/create_schema_repo.py:12
crawler_data == <<"c","r","a","w","l","e","r","_","d","a","t","a">>

schema_repo == <<"s","c","h","e","m","a","_","r","e","p","o">>

\* the artifact directory packaging makes for a job, src/app.py:356-358
website_folder(job_id, website_domain) ==
  <<crawler_data, Sanitize(website_domain) \o <<"_">> \o job_id>>

\* create_schema_repository, src/create_schema_repo.py:7-23, on the
\* directories dirs: the repository directory and the directory of the
\* website are made, then the artifact directory is looked up
create_schema_repository(crawl_job_id, website_domain, dirs) ==
  LET repo_dir == <<schema_repo>>
      clean_domain == Replace(Replace(website_domain, ".", "_"), ":", "_")
      website_dir == <<schema_repo, clean_domain>>
      source_dir ==
        <<crawler_data, clean_domain \o <<"_">> \o crawl_job_id>>
      made == dirs \cup {repo_dir, website_dir}
  IN  IF source_dir \notin dirs
        THEN [exc |-> "FileNotFoundError", dirs |-> made]
        ELSE [exc |-> "none", dirs |-> made]

\* the job ids and the hosts create_schema_repository is called with
JobIdTexts == {<<"j","1">>, <<"j","2">>}

RepoDomains ==
  {HostA, HostA \o <<":","8","0">>,
   <<"l","o","c","a","l","h","o","s","t">>}

\* the directories under crawler_data before the call: those of the jobs
\* whose packaging made its directory
PackagedSets ==
  (SUBSET {website_folder(job_id, HostA) : job_id \in JobIdTexts})
    \cup (SUBSET {website_folder(<<"j","1">>, d) : d \in RepoDomains})

CallCreateSchemaRepository(crawl_job_id, website_domain, dirs) ==
  /\ fnCall = NoCall
  /\ fnCall' = [fn |-> "create_schema_repository",
                arg |-> [crawl_job_id |-> crawl_job_id,
                         website_domain |-> website_domain,
                         dirs |-> dirs],
                result |-> create_schema_repository(crawl_job_id,
                                                    website_domain, dirs)]
  /\ UNCHANGED CallFrame

\* the index of the first occurrence of old in s, 0 when there is none
IndexOf(s, old) ==
  IF \E i \in 1..(Len(s) - Len(old) + 1) :
       SubSeq(s, i, i + Len(old) - 1) = old
    THEN CHOOSE i \in 1..(Len(s) - Len(old) + 1) :
           /\ SubSeq(s, i, i + Len(old) - 1) = old
           /\ \A k \in 1..(i - 1) : SubSeq(s, k, k + Len(old) - 1) # old
    ELSE 0

RECURSIVE str_replace(_, _, _)
\* content.replace(old, new): every occurrence of old, from the left
str_replace(s, old, new) ==
  IF IndexOf(s, old) = 0 THEN s
  ELSE SubSeq(s, 1, IndexOf(s, old) - 1) \o new
         \o str_replace(SubSeq(s, IndexOf(s, old) + Len(old), Len(s)),
                        old, new)

\* cdn_base_url, src/update_schema_loader.py:17
cdn_base_url(domain) ==
  <<Text("https://cdn.jsdelivr.net/gh/Aaditya17032002/webloom@main/schema_repo"),
    Text("/"), Name(domain)>>

\* update_schema_loader, src/update_schema_loader.py:4-42, on the files of
\* website_dir: in the loader the text
\* "const SCHEMA_BASE_URL = 'http://localhost:8000/cdn/" is replaced, in the
\* minified loader, when there is one, the text
\* "SCHEMA_BASE_URL='http://localhost:8000/cdn/"
update_schema_loader(website_dir, domain) ==
  IF loader_js \notin DOMAIN website_dir
    THEN [exc |-> "FileNotFoundError", files |-> website_dir]
  ELSE
    LET content ==
          str_replace(website_dir[loader_js],
                      <<Text("const"), Ws(" "), Text("SCHEMA_BASE_URL"),
                        Ws(" "), Text("="), Ws(" "), Text("'"),
                        CDN_BASE_URL, Text("/")>>,
                      <<Text("const"), Ws(" "), Text("SCHEMA_BASE_URL"),
                        Ws(" "), Text("="), Ws(" "), Text("'")>>
                        \o cdn_base_url(domain) \o <<Text("/")>>)
        files1 == Put(website_dir, loader_js, content)
    IN  IF loader_min_js \notin DOMAIN website_dir
          THEN [exc |-> "none", files |-> files1]
          ELSE
            LET min_content ==
                  str_replace(website_dir[loader_min_js],
                              <<Text("SCHEMA_BASE_URL"), Text("="),
                                Text("'"), CDN_BASE_URL, Text("/")>>,
                              <<Text("SCHEMA_BASE_URL"), Text("="),
                                Text("'")>>
                                \o cdn_base_url(domain) \o <<Text("/")>>)
            IN  [exc |-> "none",
                 files |-> Put(files1, loader_min_js, min_content)]

\* the loader files packaging wrote for a job of the host, of which those
\* of present are in the directory
LoaderFiles(website_domain, job_id, page_files, present) ==
  [name \in present |->
     IF name = loader_js
       THEN script_content(Sanitize(website_domain), job_id, page_files)
       ELSE minified_content(
              script_content(Sanitize(website_domain), job_id, page_files))]

\* the page lists of the loaders update_schema_loader is run on
UpdatedPageLists == {<< >>, PageFiles(<<Home>>, << >>)}

CallUpdateSchemaLoader(website_domain, job_id, page_files, present) ==
  /\ fnCall = NoCall
  /\ LET website_dir ==
           LoaderFiles(website_domain, job_id, page_files, present)
         domain == Replace(Replace(website_domain, ".", "_"), ":", "_")
     IN  fnCall' = [fn |-> "update_schema_loader",
                    arg |-> [website_dir |-> website_dir,
                             domain |-> domain],
                    result |-> update_schema_loader(website_dir, domain)]
  /\ UNCHANGED CallFrame

\* ------------------------------------------------------------------------
\* Specifications
\* ------------------------------------------------------------------------
\* a step of the task of job j, with the file-system faults and the
\* outcomes of the inference call drawn from the given sets
TaskStepWith(j, faults, infers) ==
  \/ Begin(j)
  \/ Iterate(j)
  \/ FetchFailed(j)
  \/ /\ pc[j] = "fetching"
     /\ \E new_links \in Orders(extract_links(cur[j])) :
          FetchReturned(j, new_links)
  \/ Wake(j)
  \/ \E fault \in faults, infer \in infers : Package(j, fault, infer)

TaskStep(j) == TaskStepWith(j, FsFaults, InferOutcomes)

\* start_crawl(request, background_tasks) with the request of a body
SubmitBody(j, body) ==
  LET req == CrawlRequest(body)
  IN  \/ Submit(j, req.url, req.allow_backward, req.max_pages)
      \/ SubmitRejected(j, req.url, req.allow_backward, req.max_pages)

ApiCall(j) ==
  \/ \E body \in RequestBodies : SubmitBody(j, body)
  \/ Delete(j)

Next == \E j \in SoloJobs : TaskStep(j) \/ ApiCall(j)

Spec == Init /\ [][Next]_vars

\* the event loop runs every task that can run: a fetch that was awaited
\* returns, a sleep ends, a task that holds the loop goes on
FairSpec == Spec /\ \A j \in SoloJobs : WF_vars(TaskStep(j))

\* the submissions of the specification with several jobs
ConcSeedInputs == {Home, Doc}

ConcMaxPagesInputs == {2}

ConcApiCall(j) ==
  \/ \E url \in ConcSeedInputs, max_pages \in ConcMaxPagesInputs :
       SubmitBody(j, [url |-> url, allow_backward |-> FALSE,
                      max_pages |-> <<max_pages>>])
  \/ Delete(j)

\* the faults and inference outcomes of the specification with several jobs
ConcFsFaults == {"none", "mkdir", "zip"}

ConcInferOutcomes == {"service_error", "valid"}

ConcTaskStep(j) == TaskStepWith(j, ConcFsFaults, ConcInferOutcomes)

ConcNext == \E j \in Jobs : ConcTaskStep(j) \/ ConcApiCall(j)

\* every job of Jobs is submitted, and the tasks run interleaved at their
\* awaits
ConcSpec == Init /\ [][ConcNext]_vars

\* one call of fetch_rendered_page after the other, for every behaviour of
\* the browser
FetchNext ==
  \/ FetchBegin
  \/ \E outcome \in RenderOutcomes : RenderAttempt(outcome)
  \/ BackoffOver

FetchSpec == Init /\ [][FetchNext]_vars

\* the functions that touch no job state, called on every input
CallNext ==
  \/ \E html \in Markups : CallCleanContent(html)
  \/ \E url \in UrlTexts : CallNormalizeUrl(url)
  \/ \E url \in ValidityTexts : CallIsValidUrl(url)
  \/ \E PAGE_SCHEMAS \in LoaderPageLists, location \in Locations :
       CallGetCurrentPageSchema(PAGE_SCHEMAS, location)
  \/ \E domain \in {Sanitize(d) : d \in RepoDomains},
        job_id \in JobIdTexts, page_files \in LoaderPageLists :
       CallCreateSchemaLoaderScript(domain, job_id, page_files)
  \/ \E crawl_job_id \in JobIdTexts, website_domain \in RepoDomains,
        dirs \in PackagedSets :
       CallCreateSchemaRepository(crawl_job_id, website_domain, dirs)
  \/ \E website_domain \in RepoDomains, job_id \in JobIdTexts,
        page_files \in UpdatedPageLists,
        present \in SUBSET {loader_js, loader_min_js} :
       CallUpdateSchemaLoader(website_domain, job_id, page_files, present)
  \/ CallReturn

CallSpec == Init /\ [][CallNext]_vars

\* ------------------------------------------------------------------------
\* Properties
\* ------------------------------------------------------------------------
Terminal == {"completed", "failed"}

StatusRank(status) ==
  CASE status = "initializing" -> 0
    [] status = "crawling" -> 1
    [] status \in Terminal -> 2

\* the task of j was started and the job was never deleted
Live(j) == InRegistry(j) /\ crawler[j] # NoCrawler

\* the fetch-failure errors a fetch history gives rise to, in order
RECURSIVE FetchErrorsOf(_)
FetchErrorsOf(log) ==
  IF log = << >> THEN << >>
  ELSE (IF Head(log).ok THEN << >> ELSE <<FetchError(Head(log).url)>>)
       \o FetchErrorsOf(Tail(log))

Count(seq, x) == Cardinality({i \in 1..Len(seq) : seq[i] = x})

NoDuplicates(seq) ==
  \A i, k \in 1..Len(seq) :
    normalize_url(seq[i]) = normalize_url(seq[k]) => i = k

\* C1: the status of a job only moves forward, initializing -> crawling ->
\* (completed | failed), one stage at a time; a record is created with
\* status initializing; once the status is completed or failed no step
\* changes the record, and only delete_job removes it.
C1_StatusMovesForward ==
  [][\A j \in Jobs :
       /\ (~InRegistry(j) /\ crawl_jobs'[j] # NoJob) =>
            crawl_jobs'[j].status = "initializing" /\ pc[j] = "none"
       /\ (InRegistry(j) /\ crawl_jobs'[j] # NoJob) =>
            /\ StatusRank(crawl_jobs'[j].status)
                 >= StatusRank(crawl_jobs[j].status)
            /\ StatusRank(crawl_jobs'[j].status)
                 <= StatusRank(crawl_jobs[j].status) + 1
            /\ crawl_jobs[j].status \in Terminal =>
                 crawl_jobs'[j] = crawl_jobs[j]
       /\ (InRegistry(j) /\ crawl_jobs'[j] = NoJob) => Delete(j)]_vars

\* a job went through crawling, ended failed and its task has returned
C1_Witness ==
  \E j \in Jobs :
    /\ Live(j)
    /\ pc[j] = "done"
    /\ crawl_jobs[j].status = "failed"
    /\ Len(crawl_jobs[j].completed_pages) >= 2

\* C2: a job that was not deleted, whose loop has ended and whose packaging
\* met no file-system fault has ended completed, with progress equal to the
\* number of visited pages, the accumulated errors and both output
\* locations set.
C2_CompletedWithoutFsFault ==
  \A j \in Jobs :
    (pc[j] = "done" /\ InRegistry(j) /\ packaging[j] # "fsfault") =>
      /\ crawl_jobs[j].status = "completed"
      /\ crawl_jobs[j].progress = Cardinality(crawler[j].visited)
      /\ crawl_jobs[j].errors = crawler[j].errors
      /\ crawl_jobs[j].cdn_url
      /\ crawl_jobs[j].download_url

\* C3: when packaging faulted, the job is failed (never completed) and its
\* error list is the errors recorded before the fault, in their order,
\* followed by exactly one diagnostic entry.
C3_PackagingFaultFails ==
  \A j \in Jobs :
    (InRegistry(j) /\ packaging[j] \in {"fsfault", "fault"}) =>
      /\ crawl_jobs[j].status = "failed"
      /\ Len(crawl_jobs[j].errors) = Len(FetchErrorsOf(fetchLog[j])) + 1
      /\ SubSeq(crawl_jobs[j].errors, 1, Len(crawl_jobs[j].errors) - 1)
           = FetchErrorsOf(fetchLog[j])
      /\ crawl_jobs[j].errors[Len(crawl_jobs[j].errors)].kind = "critical"

\* packaging met a file-system fault after two fetches had failed
C3_Witness ==
  \E j \in Jobs :
    /\ InRegistry(j)
    /\ packaging[j] = "fsfault"
    /\ Len(crawl_jobs[j].errors) >= 3

\* C5: progress and the number of completed pages never exceed the page
\* budget total_pages, whatever max_pages was submitted, and no fetch is in
\* flight once the visited count has reached the budget.
C5_WithinBudget ==
  \A j \in Jobs :
    InRegistry(j) =>
      /\ crawl_jobs[j].progress <= crawl_jobs[j].total_pages
      /\ Len(crawl_jobs[j].completed_pages) <= crawl_jobs[j].total_pages
      /\ pc[j] = "fetching" =>
           Cardinality(crawler[j].visited) < crawl_jobs[j].total_pages

VisitedOf(j) == IF crawler[j] = NoCrawler THEN {} ELSE crawler[j].visited

\* C6: completed_pages never holds two entries with the same normalized
\* URL, its URLs are exactly the visited set, and a step only appends to it.
C6_CompletedPagesDistinct ==
  /\ [](\A j \in Jobs :
          InRegistry(j) =>
            /\ NoDuplicates(crawl_jobs[j].completed_pages)
            /\ Range(crawl_jobs[j].completed_pages) = VisitedOf(j))
  /\ [][\A j \in Jobs :
          (InRegistry(j) /\ crawl_jobs'[j] # NoJob) =>
            /\ Len(crawl_jobs'[j].completed_pages)
                 >= Len(crawl_jobs[j].completed_pages)
            /\ SubSeq(crawl_jobs'[j].completed_pages, 1,
                      Len(crawl_jobs[j].completed_pages))
                 = crawl_jobs[j].completed_pages]_vars

\* three pages were completed, one of them reached again by a link
C6_Witness ==
  \E j \in Jobs :
    /\ Live(j)
    /\ Len(crawl_jobs[j].completed_pages) >= 3
    /\ pc[j] = "done"

\* C7: every started job that is not deleted reaches completed or failed.
C7_Terminates ==
  \A j \in Jobs :
    (pc[j] = "pending") ~>
      (~InRegistry(j) \/ crawl_jobs[j].status \in Terminal)

\* a job ended after a crawl over the cycle Home -> p -> Home in which the
\* fetch of one URL failed twice
C7_Witness ==
  \E j \in Jobs :
    /\ Live(j)
    /\ crawl_jobs[j].status \in Terminal
    /\ {Home, PageP} \subseteq crawler[j].visited
    /\ \E u \in {PageQ, Other} :
         Count(fetchLog[j], [url |-> u, ok |-> FALSE]) >= 2

FetchedUrls(j) == {fetchLog[j][i].url : i \in 1..Len(fetchLog[j])}

\* every fetch of url made so far returned the empty string
AllFetchesFailed(j, url) ==
  /\ url \in FetchedUrls(j)
  /\ \A i \in 1..Len(fetchLog[j]) :
       fetchLog[j][i].url = url => ~fetchLog[j][i].ok

\* a step in which a fetch returns "" leaves the job record and the queue
\* alone and takes the task back to the head of the loop
FailureGoesOn ==
  \A j \in Jobs :
    (pc[j] = "fetching" /\ Len(fetchLog'[j]) > Len(fetchLog[j])
       /\ ~fetchLog'[j][Len(fetchLog'[j])].ok) =>
      /\ pc'[j] = "head"
      /\ crawler'[j].queue = crawler[j].queue
      /\ crawl_jobs' = crawl_jobs

\* C8 as stated: a URL whose every fetch fails has exactly one error in the
\* whole job, is neither visited nor completed nor counted in progress, and
\* the crawl goes on.
C8_OneErrorPerFailingUrl ==
  /\ [](\A j \in Jobs : \A url \in FetchedUrls(j) :
          (Live(j) /\ AllFetchesFailed(j, url)) =>
            /\ Count(crawler[j].errors, FetchError(url)) = 1
            /\ url \notin crawler[j].visited
            /\ url \notin Range(crawl_jobs[j].completed_pages)
            /\ crawl_jobs[j].progress <= Cardinality(crawler[j].visited))
  /\ [][FailureGoesOn]_vars

\* C8 amended: a URL whose every fetch fails has exactly one error for
\* each fetch made of it, is neither visited nor completed nor counted in
\* progress, and the crawl goes on.
C8_OneErrorPerFailedFetch ==
  /\ [](\A j \in Jobs : \A url \in FetchedUrls(j) :
          (Live(j) /\ AllFetchesFailed(j, url)) =>
            /\ Count(crawler[j].errors, FetchError(url))
                 = Count(fetchLog[j], [url |-> url, ok |-> FALSE])
            /\ url \notin crawler[j].visited
            /\ url \notin Range(crawl_jobs[j].completed_pages)
            /\ crawl_jobs[j].progress <= Cardinality(crawler[j].visited))
  /\ [][FailureGoesOn]_vars

\* a URL failed, was linked again by a later page and failed again, and the
\* crawl went on to fetch another URL
C8_Witness ==
  \E j \in Jobs : \E url \in FetchedUrls(j) :
    /\ Live(j)
    /\ AllFetchesFailed(j, url)
    /\ Count(crawler[j].errors, FetchError(url)) = 2
    /\ fetchLog[j][Len(fetchLog[j])].url # url

\* url is valid and, unless cross-domain is allowed, on the seed's host
Admissible(self, url) ==
  /\ is_valid_url(url)
  /\ self.allow_backward \/ url.netloc = self.start_url.netloc

\* C9: the queue never holds two entries with the same normalized form nor
\* an entry whose normalized form is visited, and every entry is admissible.
C9_FrontierInvariant ==
  \A j \in Jobs :
    crawler[j] # NoCrawler =>
      /\ NoDuplicates(crawler[j].queue)
      /\ \A i \in 1..Len(crawler[j].queue) :
           /\ normalize_url(crawler[j].queue[i]) \notin crawler[j].visited
           /\ Admissible(crawler[j], crawler[j].queue[i])

\* two links are pending after a page that links to itself, to a visited
\* page and to pending pages was processed
C9_Witness ==
  \E j \in Jobs :
    /\ crawler[j] # NoCrawler
    /\ Len(crawler[j].queue) >= 2
    /\ Cardinality(crawler[j].visited) >= 2

\* the rules of the validity check, stated on the parts of the URL
HasValidParts(url) ==
  /\ url.scheme \in {http, https}
  /\ ~\E ext \in IGNORED_EXTENSIONS : EndsWith(Lower(url.path), ext)
  /\ ~\E excluded \in excluded_domains : Contains(Lower(url.netloc), excluded)

\* the URLs the task of j has passed to fetch_rendered_page
PassedToFetch(j) ==
  FetchedUrls(j) \cup (IF pc[j] = "fetching" THEN {cur[j]} ELSE {})

\* C10: every URL passed to fetch, visited or completed passes the validity
\* rules and, when cross-domain crawling is not allowed, is on the host of
\* the seed URL.
C10_FetchedInScope ==
  \A j \in Jobs :
    \A url \in PassedToFetch(j) \cup VisitedOf(j)
                 \cup (IF InRegistry(j)
                         THEN Range(crawl_jobs[j].completed_pages) ELSE {}) :
      /\ HasValidParts(url)
      /\ ~request[j].allow_backward => url.netloc = request[j].url.netloc

\* a job without cross-domain crawling ended after visiting the home page,
\* which links to another host, to a blocklisted host and to a document
C10_Witness ==
  \E j \in Jobs :
    /\ request[j] # NoRequest
    /\ ~request[j].allow_backward
    /\ pc[j] = "done"
    /\ {Home, PageP, PageQ} \subseteq VisitedOf(j)


\* every fetch of the job so far returned markup
AllFetchesOk(j) == \A i \in 1..Len(fetchLog[j]) : fetchLog[j][i].ok

IsPrefix(s, t) == Len(s) <= Len(t) /\ \A i \in 1..Len(s) : s[i] = t[i]

RECURSIVE Discover(_, _, _, _)
\* the frontier after the anchors of a visited page were looked at in the
\* order they occur on the page
Discover(self, done, frontier, anchors) ==
  IF anchors = << >> THEN frontier
  ELSE LET link == normalize_url(Head(anchors))
       IN  Discover(self, done,
                    IF /\ Admissible(self, link)
                       /\ link \notin Range(done)
                       /\ link \notin Range(frontier)
                      THEN Append(frontier, link)
                      ELSE frontier,
                    Tail(anchors))

RECURSIVE DiscoveryOrder(_, _, _)
\* the pages a first-in-first-out breadth-first crawl visits, in order, when
\* every fetch succeeds: the seed, then the links in discovery order
DiscoveryOrder(self, done, frontier) ==
  IF frontier = << >> \/ Len(done) >= self.max_pages THEN done
  ELSE LET done1 == Append(done, Head(frontier))
       IN  DiscoveryOrder(self, done1,
             Discover(self, done1, Tail(frontier), Anchors(Head(frontier))))

\* C11: pages are visited in first-in-first-out breadth-first discovery
\* order, the seed first and then the links of each visited page in the
\* order they occur on that page; when every fetch succeeds the job visits
\* exactly the seed and the first links in discovery order that fit the
\* budget.
C11_VisitsInDiscoveryOrder ==
  \A j \in Jobs :
    (crawler[j] # NoCrawler /\ AllFetchesOk(j)) =>
      LET order == DiscoveryOrder(crawler[j], << >>,
                                  <<normalize_url(crawler[j].start_url)>>)
      IN  /\ IsPrefix(crawler[j].results, order)
          /\ (pc[j] = "done" /\ InRegistry(j)) => crawler[j].results = order

\* the waits of a call that made n attempts and slept between them only
BackoffWaits(n) == [i \in 1..(n - 1) |-> 1 * i]

\* what a call of fetch has to look like when Good(outcome) tells the
\* attempts that succeed
FetchContract(Good(_)) ==
  LET n == Len(fetch.outcomes)
  IN  /\ fetch.exc = "none"
      /\ n <= max_retries
      /\ \A i \in 1..n : Good(fetch.outcomes[i]) => i = n
      /\ fetch.pc = "render" =>
           /\ n = fetch.attempt /\ n < max_retries
           /\ \A i \in 1..n : ~Good(fetch.outcomes[i])
           /\ fetch.waits = BackoffWaits(n + 1)
      /\ fetch.pc = "backoff" =>
           /\ n = fetch.attempt + 1 /\ n < max_retries
           /\ \A i \in 1..n : ~Good(fetch.outcomes[i])
           /\ fetch.waits = BackoffWaits(n + 1)
      /\ fetch.pc = "returned" =>
           /\ n >= 1
           /\ fetch.waits = BackoffWaits(n)
           /\ IF Good(fetch.outcomes[n])
                THEN fetch.ret = <<fetch.outcomes[n].len>>
                ELSE n = max_retries /\ fetch.ret = <<0>>

\* the attempt neither throws nor times out nor yields markup shorter than
\* 100 characters
NotShorterThan100(outcome) ==
  outcome.kind = "content" /\ ~(outcome.len < MeaningfulLength)

\* the attempt neither throws nor times out nor yields markup of 100
\* characters or fewer
LongerThan100(outcome) ==
  outcome.kind = "content" /\ ~(outcome.len <= MeaningfulLength)

\* C12 as stated: a call of fetch makes between one and 3 attempts, none
\* after a success, returns the markup of the first attempt that neither
\* throws nor times out nor yields markup shorter than 100 characters, waits
\* 1 second times the attempt number only between attempts, returns "" when
\* every attempt failed and never raises.
C12_FetchReturnsFirstNotShorter == FetchContract(NotShorterThan100)

\* C12, amended: the same with a successful attempt being one that neither
\* throws nor times out nor yields markup of 100 characters or fewer.
C12_FetchReturnsFirstLonger == FetchContract(LongerThan100)

\* a call that was given markup of exactly 100 characters, went on, and
\* returned the longer markup of its last attempt
C12_Witness ==
  /\ fetch.pc = "returned"
  /\ Len(fetch.outcomes) = max_retries
  /\ fetch.outcomes[1] = [kind |-> "content", len |-> MeaningfulLength]
  /\ fetch.outcomes[2].kind = "goto_raises"
  /\ fetch.ret = <<MeaningfulLength + 1>>
  /\ fetch.waits = <<1, 2>>

\* C13: a job deleted while its task is suspended in a fetch or in the
\* rate-limit delay stays out of the registry and its task is not
\* interrupted: the task goes on to packaging and to its normal end, and
\* never ends by a fault that nothing handles.
C13_DeletedTaskEndsNormally ==
  \A j \in Jobs :
    (~InRegistry(j) /\ fetchLog[j] # << >>) =>
      /\ pc[j] # "raised"
      /\ pc[j] = "done" => packaging[j] # "notrun"

\* C14: whenever no task holds the event loop, so that a status query can
\* run, the progress of every job in the registry equals the number of pages
\* visited so far, which is the length of completed_pages.
C14_ProgressCountsVisited ==
  \A j \in Jobs :
    (running = Idle /\ InRegistry(j)) =>
      /\ crawl_jobs[j].progress = Len(crawl_jobs[j].completed_pages)
      /\ crawl_jobs[j].progress = Cardinality(VisitedOf(j))

\* C15: whenever no task holds the event loop, so that a status query can
\* run, the error list of the job record holds every error the task has
\* recorded so far: a fetch failure is in the record no later than the next
\* point at which the task is suspended.
C15_ErrorsVisibleWhenSuspended ==
  \A j \in Jobs :
    (running = Idle /\ Live(j)) =>
      IsPrefix(crawler[j].errors, crawl_jobs[j].errors)

\* the URLs of the fetches of a history that returned markup, in order
RECURSIVE OkUrls(_)
OkUrls(log) ==
  IF log = << >> THEN << >>
  ELSE (IF Head(log).ok THEN <<Head(log).url>> ELSE << >>)
       \o OkUrls(Tail(log))

\* the step is one of the task of job j
IsTaskStepOf(j) ==
  pc[j] # "none" /\ (pc'[j] # pc[j] \/ crawler'[j] # crawler[j])

\* the step leaves alone what belongs to the other jobs, and the set of
\* the jobs in the registry
OwnRecordOnly(j) ==
  /\ \A k \in Jobs \ {j} :
       /\ crawl_jobs'[k] = crawl_jobs[k]
       /\ crawler'[k] = crawler[k]
       /\ fs'[k] = fs[k]
  /\ \A k \in Jobs : (crawl_jobs'[k] = NoJob) <=> (crawl_jobs[k] = NoJob)

\* status, progress, completed_pages and errors of the record of j are what
\* the fetch results of j alone make them
AsIfAlone(j) ==
  LET log == fetchLog[j]
      rec == crawl_jobs[j]
      lag == IF pc[j] # "fetching" /\ log # << >> /\ log[Len(log)].ok
               THEN 1 ELSE 0
  IN  /\ rec.completed_pages = OkUrls(log)
      /\ rec.progress = Len(OkUrls(log)) - lag
      /\ rec.status = (IF pc[j] = "pending" THEN "initializing"
                       ELSE IF pc[j] # "done" THEN "crawling"
                       ELSE IF packaging[j] = "ok" THEN "completed"
                       ELSE "failed")
      /\ IF pc[j] # "done" THEN rec.errors = << >>
         ELSE IF packaging[j] = "ok" THEN rec.errors = crawler[j].errors
         ELSE /\ SubSeq(rec.errors, 1, Len(rec.errors) - 1)
                   = FetchErrorsOf(log)
              /\ rec.errors[Len(rec.errors)].kind = "critical"

\* C16: with several jobs running interleaved, a step of the task of a job
\* changes at most the record of that job, never a field of another record,
\* and neither inserts nor removes a registry entry; status, progress,
\* completed_pages and errors of a job are those the job has when it runs
\* alone on the same fetch results.
C16_TaskOwnsItsRecord ==
  /\ [](\A j \in Jobs : InRegistry(j) => AsIfAlone(j))
  /\ [][\A j \in Jobs : IsTaskStepOf(j) => OwnRecordOnly(j)]_vars

\* two jobs in the middle of their crawls, each with a page of its own
\* fetch history in its record
C16_Witness ==
  /\ \A j \in Jobs :
       /\ InRegistry(j)
       /\ crawl_jobs[j].status = "crawling"
       /\ crawl_jobs[j].completed_pages # << >>
  /\ fetchLog["j1"] # fetchLog["j2"]
  /\ pc["j1"] = "fetching" /\ pc["j2"] = "sleeping"

\* the step puts job j in the registry
Inserted(j) == crawl_jobs[j] = NoJob /\ crawl_jobs'[j] # NoJob

\* the step answers a submission with the error
Rejected == response # "400" /\ response' = "400"

\* C17: a submission whose seed fails the validity check is answered with
\* the error, changes no registry entry and starts no task; no job with
\* such a seed is ever in the registry; a step that inserts a job inserts
\* that one job only, with status initializing, progress 0, no completed
\* page and no error, and starts the task of that job only.
C17_SubmissionValidated ==
  /\ [](\A j \in Jobs :
          InRegistry(j) => is_valid_url(crawl_jobs[j].config.start_url))
  /\ [][/\ Rejected => UNCHANGED <<crawl_jobs, pc, crawler, request>>
        /\ \A j \in Jobs :
             Inserted(j) =>
               /\ crawl_jobs'[j].status = "initializing"
               /\ crawl_jobs'[j].progress = 0
               /\ crawl_jobs'[j].completed_pages = << >>
               /\ crawl_jobs'[j].errors = << >>
               /\ is_valid_url(request'[j].url)
               /\ pc[j] = "none" /\ pc'[j] = "pending"
               /\ \A k \in Jobs \ {j} :
                    crawl_jobs'[k] = crawl_jobs[k] /\ pc'[k] = pc[k]]_vars

\* the first job was accepted and is in the registry as it was made; the
\* submission of the second was rejected and left no trace
C17_Witness ==
  /\ response = "400"
  /\ InRegistry("j1")
  /\ crawl_jobs["j1"].status = "initializing"
  /\ pc["j1"] = "pending"
  /\ ~InRegistry("j2") /\ pc["j2"] = "none" /\ request["j2"] = NoRequest

\* the page budget the claim gives a submission: 20 without max_pages,
\* else max_pages capped at 50
ClaimedBudget(body) ==
  IF body.max_pages = << >> THEN DefaultMaxPages
  ELSE Min(body.max_pages[1], MAX_PAGES)

\* C18: the page budget of an accepted job, total_pages, which is also the
\* budget of its crawler, never exceeds 50, is 20 when the submission gives
\* no max_pages, and is the submitted max_pages capped at 50 otherwise.
C18_BudgetIsCappedRequest ==
  /\ [](\A j \in Jobs :
          /\ InRegistry(j) => crawl_jobs[j].total_pages <= MAX_PAGES
          /\ Live(j) => crawler[j].max_pages = crawl_jobs[j].total_pages)
  /\ [][\A j \in Jobs : \A body \in RequestBodies :
          (Inserted(j) /\ SubmitBody(j, body)) =>
            crawl_jobs'[j].total_pages = ClaimedBudget(body)]_vars

\* the outcomes of the inference call after which no schema of the model is
\* there to use
InferenceFailed(infer) ==
  infer \in {"service_error", "unparseable", "not_mapping"}

\* C19: every call of schema generation for a page returns, whatever the
\* inference call does, a mapping with "@context" and "@type", and raises
\* nothing; when the inference fails the mapping is the fallback: type
\* WebPage, the title of the page or 'Untitled Page' as name, the description
\* of the page or the placeholder.
C19_SchemaGenerationTotal ==
  \A j \in Jobs : \A i \in 1..Len(schemaCalls[j]) :
    LET call == schemaCalls[j][i]
    IN  /\ call.exc = "none"
        /\ {"@context", "@type"} \subseteq DOMAIN call.doc
        /\ InferenceFailed(call.infer) =>
             /\ call.doc["@type"] = "WebPage"
             /\ call.doc["name"] \in {Metadata(call.url).title, "Untitled Page"}
             /\ call.doc["name"] # ""
             /\ call.doc["description"] # ""

\* the job made a document for the page at url
HasPageDocument(j, url) ==
  \E n \in DOMAIN fs[j].files :
    fs[j].files[n].kind = "page" /\ fs[j].files[n].url = url

\* C20: when the inference fails for a page of a job whose packaging meets
\* no file-system fault, the job still writes the document of that page,
\* has an entry for the failure in its error list, and ends completed.
C20_InferenceFailureAbsorbed ==
  \A j \in Jobs : \A i \in 1..Len(schemaCalls[j]) :
    LET call == schemaCalls[j][i]
    IN  (/\ InferenceFailed(call.infer)
         /\ pc[j] = "done" /\ InRegistry(j)
         /\ packaging[j] # "fsfault") =>
          /\ HasPageDocument(j, call.url)
          /\ \E e \in Range(crawl_jobs[j].errors) : e.url = call.url
          /\ crawl_jobs[j].status = "completed"

\* C21: extraction is total: for every markup, also one whose processing
\* raises inside, clean_content returns a record and raises nothing, and the
\* metadata of the record has every metadata field, with empty or zero
\* values (the title apart) on the fault path.
C21_ExtractionTotal ==
  fnCall.fn = "clean_content" =>
    /\ fnCall.result.exc = "none"
    /\ MetadataKeys \subseteq DOMAIN fnCall.result.metadata
    /\ fnCall.arg.fault # "none" =>
         \A k \in (DOMAIN fnCall.result.metadata) \ {"title"} :
           \/ k = "word_count" /\ fnCall.result.metadata[k] = 0
           \/ k # "word_count" /\ Len(fnCall.result.metadata[k]) = 0

\* ------------------------------------------------------------------------
\* C22
\* ------------------------------------------------------------------------
\* urlparse accepts the text and finds a host in it
HasHost(url) == urlparse(url) # ValueError /\ urlparse(url).netloc # << >>

\* what the claim says of normalize_url called on u with result r: a
\* second application changes nothing, u with a fragment appended gives
\* the same result, no fragment is left, and scheme, host, path and query
\* of the result are those of u
FragmentOnly(u, r) ==
  /\ normalize_url_text(r) = r
  /\ \A f \in FragmentTexts : normalize_url_text(u \o f) = r
  /\ "#" \notin Range(r)
  /\ urlparse(u) # ValueError => urlparse(r) = normalize_url(urlparse(u))

\* C22: for every URL u, normalize_url is idempotent, maps u and u with
\* any fragment appended to the same result, and changes nothing but the
\* fragment: scheme, host, path and query of the result are those of u.
C22_NormalizeStripsOnlyFragment ==
  fnCall.fn = "normalize_url" => FragmentOnly(fnCall.arg, fnCall.result)

\* the same on the texts in which urlparse finds a host, which are the
\* ones the crawl loop takes from its queue
NormalizeOnHostUrls ==
  (fnCall.fn = "normalize_url" /\ HasHost(fnCall.arg))
    => FragmentOnly(fnCall.arg, fnCall.result)

\* ------------------------------------------------------------------------
\* C23
\* ------------------------------------------------------------------------
\* s starts with pre
StartsWith(s, pre) == Len(pre) <= Len(s) /\ UpTo(s, Len(pre)) = pre

\* host is the domain or one of its subdomains
HostWithin(host, domain) ==
  Lower(host) = domain \/ EndsWith(Lower(host), <<".">> \o domain)

\* the path lies under /company/, /school/ or /showcase/
ProfilePath(path) ==
  \E dir \in {company_dir, school_dir, showcase_dir} : StartsWith(path, dir)

\* the call in fnCall is is_valid_url on a text that parses
ValidityCall ==
  fnCall.fn = "is_valid_url" /\ urlparse(fnCall.arg) # ValueError

\* C23: is_valid_url admits a URL on the LinkedIn host only when its path
\* lies under /company/, /school/ or /showcase/, and the rules on the
\* scheme and on the ignored extensions apply to LinkedIn URLs as well.
C23_LinkedInOnlyProfiles ==
  (/\ ValidityCall
   /\ HostWithin(urlparse(fnCall.arg).netloc, linkedin_com)
   /\ fnCall.result)
    => /\ ProfilePath(urlparse(fnCall.arg).path)
       /\ urlparse(fnCall.arg).scheme \in {http, https}
       /\ ~ \E ext \in IGNORED_EXTENSIONS :
              EndsWith(Lower(urlparse(fnCall.arg).path), ext)

\* ------------------------------------------------------------------------
\* C28
\* ------------------------------------------------------------------------
\* C28: is_valid_url rejects for the host only when the host is one of
\* excluded_domains or a subdomain of one: a URL with scheme http or https,
\* without ignored extension and with a path, whose host is neither that
\* nor the LinkedIn one, is admitted.
C28_BlocklistByHost ==
  (/\ ValidityCall
   /\ urlparse(fnCall.arg).scheme \in {http, https}
   /\ urlparse(fnCall.arg).netloc # << >>
   /\ urlparse(fnCall.arg).path # << >>
   /\ ~ \E ext \in IGNORED_EXTENSIONS :
          EndsWith(Lower(urlparse(fnCall.arg).path), ext)
   /\ ~ Contains(Lower(urlparse(fnCall.arg).netloc), linkedin_com)
   /\ ~ \E excluded \in excluded_domains :
          HostWithin(urlparse(fnCall.arg).netloc, excluded))
    => fnCall.result

\* ------------------------------------------------------------------------
\* C24
\* ------------------------------------------------------------------------
\* packaging of job j wrote its manifest
ManifestWritten(j) ==
  /\ index_json \in DOMAIN fs[j].files
  /\ fs[j].files[index_json].kind = "index"

\* the page list of the manifest of job j
Manifest(j) == fs[j].files[index_json].pages

\* C24: when packaging met no file-system fault, every page record of the
\* batch has its own entry in the manifest, in the order of the records,
\* the filenames of the manifest are pairwise distinct, and a record whose
\* plain filename no earlier record took keeps that plain filename.
C24_EveryRecordOwnFile ==
  \A j \in Jobs :
    (ManifestWritten(j) /\ packaging[j] # "fsfault") =>
      /\ Len(Manifest(j)) = Len(crawler[j].results)
      /\ \A i \in 1..Len(Manifest(j)) :
           /\ Manifest(j)[i].url = crawler[j].results[i]
           /\ (\A k \in 1..(i - 1) :
                 PageFilename(crawler[j].results[k])
                   # PageFilename(crawler[j].results[i]))
                => Manifest(j)[i].filename
                     = PageFilename(crawler[j].results[i])
      /\ \A i, k \in 1..Len(Manifest(j)) :
           i # k => Manifest(j)[i].filename # Manifest(j)[k].filename

\* ------------------------------------------------------------------------
\* C25
\* ------------------------------------------------------------------------
\* C25: whenever the page list embedded in the loader has a page whose URL
\* is exactly the URL the browser is at, getCurrentPageSchema returns the
\* filename of that page, whatever pages precede it in the list and
\* whatever their paths are.
C25_ExactMatchFirst ==
  fnCall.fn = "getCurrentPageSchema" =>
    \A i \in 1..Len(fnCall.arg.PAGE_SCHEMAS) :
      fnCall.arg.PAGE_SCHEMAS[i].url = href(fnCall.arg.location)
        => fnCall.result = fnCall.arg.PAGE_SCHEMAS[i].filename

\* ------------------------------------------------------------------------
\* C26
\* ------------------------------------------------------------------------
\* C26: the minified loader executes the same statements as the full
\* loader it was made from by collapsing every run of white space, line
\* breaks included, to one blank.
C26_MinifiedSameStatements ==
  fnCall.fn = "create_schema_loader_script" =>
    Statements(fnCall.result.minified_content)
      = Statements(fnCall.result.script_content)

\* ------------------------------------------------------------------------
\* C27
\* ------------------------------------------------------------------------
\* the step adds a URL to the visited set of job j
MarksVisited(j) ==
  /\ crawler[j] # NoCrawler /\ crawler'[j] # NoCrawler
  /\ crawler'[j].visited \ crawler[j].visited # {}

\* with the step the task of job j enters the rate-limit sleep
BeginsDelay(j) == pc[j] # "sleeping" /\ pc'[j] = "sleeping"

\* the step is the end of an iteration of job j whose fetch failed
FetchFailure(j) ==
  /\ pc[j] = "fetching"
  /\ Len(fetchLog'[j]) = Len(fetchLog[j]) + 1
  /\ ~fetchLog'[j][Len(fetchLog'[j])].ok

\* the step is an iteration of job j that ends at "continue" after the
\* test of should_visit
SkippingIteration(j) ==
  /\ pc[j] = "head" /\ LoopCondition(crawler[j])
  /\ crawler'[j] # NoCrawler
  /\ crawler'[j].queue = Tail(crawler[j].queue)
  /\ ~should_visit(crawler'[j], normalize_url(Head(crawler[j].queue)))

\* C27: the task of a job enters the rate-limit sleep exactly in the
\* iterations that mark a URL visited; an iteration that skips its
\* candidate changes nothing in the job record, the visited set and the
\* error list and does not sleep; an iteration whose fetch failed does not
\* sleep.
C27_DelayIffVisited ==
  [][\A j \in Jobs :
       /\ BeginsDelay(j) <=> MarksVisited(j)
       /\ FetchFailure(j) => ~BeginsDelay(j) /\ ~MarksVisited(j)
       /\ SkippingIteration(j) =>
            /\ crawl_jobs'[j] = crawl_jobs[j]
            /\ crawler'[j].visited = crawler[j].visited
            /\ crawler'[j].errors = crawler[j].errors
            /\ ~BeginsDelay(j)]_vars

\* a job sleeps after it marked the page of this iteration visited, and an
\* earlier iteration of it ended with a failed fetch
C27_Witness ==
  \E j \in Jobs :
    /\ pc[j] = "sleeping"
    /\ cur[j] \in crawler[j].visited
    /\ \E i \in 1..Len(fetchLog[j]) :
         /\ ~fetchLog[j][i].ok
         /\ fetchLog[j][i].url \notin crawler[j].visited

\* ------------------------------------------------------------------------
\* C30
\* ------------------------------------------------------------------------
\* C30: for a job for which packaging made its artifact directory,
\* create_schema_repository called with the id and the host of the job
\* looks the directory up under the name packaging gave it and raises no
\* FileNotFoundError; and a call that raises FileNotFoundError has made no
\* directory of the repository.
C30_RepositoryFindsArtifacts ==
  fnCall.fn = "create_schema_repository" =>
    /\ website_folder(fnCall.arg.crawl_job_id, fnCall.arg.website_domain)
         \in fnCall.arg.dirs
       => fnCall.result.exc # "FileNotFoundError"
    /\ fnCall.result.exc = "FileNotFoundError"
       => fnCall.result.dirs = fnCall.arg.dirs

\* ------------------------------------------------------------------------
\* The manifest and the files it lists
\* ------------------------------------------------------------------------
\* every filename the manifest of a job lists names a file that holds the
\* document of the listed page
ManifestNamesPageDocuments ==
  \A j \in Jobs :
    ManifestWritten(j) =>
      \A i \in 1..Len(Manifest(j)) :
        /\ Manifest(j)[i].filename \in DOMAIN fs[j].files
        /\ fs[j].files[Manifest(j)[i].filename]
             = [kind |-> "page", url |-> Manifest(j)[i].url]

\* no manifest lists a page: generate_json_ld is not defined, and no
\* document is written
ManifestListsNoPage ==
  \A j \in Jobs : ManifestWritten(j) => Manifest(j) = << >>

\* ------------------------------------------------------------------------
\* C31
\* ------------------------------------------------------------------------
\* the base URL a loader text carries: what stands between the quotes of
\* the value of SCHEMA_BASE_URL
BaseUrl(script) ==
  SubSeq(script, IndexOf(script, <<Text("'")>>) + 1,
         IndexOf(script, <<Text("';")>>) - 1)

\* C31: after update_schema_loader ran on a directory that holds the
\* loader and the minified loader as packaging wrote them, both files
\* carry the same base URL, neither contains the localhost base URL any
\* more, and the base URL is the CDN location of the directory of the
\* website in the repository.
C31_LoadersPointToCdn ==
  (/\ fnCall.fn = "update_schema_loader"
   /\ DOMAIN fnCall.arg.website_dir = {loader_js, loader_min_js})
    => /\ fnCall.result.exc = "none"
       /\ BaseUrl(fnCall.result.files[loader_js])
            = BaseUrl(fnCall.result.files[loader_min_js])
       /\ \A name \in {loader_js, loader_min_js} :
            \A i \in 1..Len(fnCall.result.files[name]) :
              fnCall.result.files[name][i] # CDN_BASE_URL
       /\ BaseUrl(fnCall.result.files[loader_js])
            = cdn_base_url(fnCall.arg.domain) \o <<Text("/")>>

====
